---- MODULE Spec2Model ----
(***************************************************************************)
(* Model of the demo-dataset rebuild of jwdavis/demo-dashboard:            *)
(*   - FirestoreService.delete_all_documents / batch_write                 *)
(*     (app/services/firestore.py), the bounded-concurrency collection     *)
(*     replacement, under SpecReplace;                                     *)
(*   - DemoDataService.create_demo_data (app/services/demo_data.py), the   *)
(*     sequential pipeline over Firestore and BigQuery, under SpecPipe;    *)
(*   - BigQueryService.write_rows_to_table (app/services/bigquery.py),     *)
(*     the chunked insert with its retries, under SpecIngest;              *)
(*   - single calls of update_document_by_field and of the generators of   *)
(*     demo_data.py on drawn inputs, under the Spec... of each function.   *)
(***************************************************************************)
EXTENDS Integers, Sequences, FiniteSets, TLC

(***************************************************************************)
(* Bounds of the model.                                                    *)
(***************************************************************************)
\* largest batch_size argument of delete_all_documents that is tried
MaxBatchSize == 2
\* largest max_workers argument of delete_all_documents that is tried
MaxWorkers == 2
\* largest number of documents in the collection before the call
MaxDocs == 5
\* largest number of documents handed to batch_write
MaxNew == 3
\* the store's limit on the operations of one batched write (Firestore
\* documents 500, the default batch_size of delete_all_documents), scaled
StoreBatchLimit == 2
\* largest number of rows in the seed table success-hq.datastore.user
MaxSeedUsers == 3
\* largest number of documents (rows) an earlier run left in each collection
\* (table)
MaxPre == 1
\* largest number of chunks of the rows handed to write_rows_to_table
MaxChunks == 3
\* largest number of documents of the collection update_document_by_field
\* is called on
MaxColl == 2
\* largest number of days since the registration of the user whose events
\* are generated
MaxUserDays == 2
\* largest number of days since the registration of the company whose events
\* are generated
MaxCompanyDays == 45
\* largest number of users handed to _create_company_docs
MaxUsers == 3
\* oldest company, in days, handed to _create_project_docs on its own
MaxProjectAge == 150
\* longest list of events handed to _generate_company_updates on its own
MaxEvents == 3

VARIABLES
    \* ---- delete_all_documents / batch_write (SpecReplace) ----
    batch_size,          \* argument batch_size
    max_workers,         \* argument max_workers
    coll,                \* the documents the collection holds (their ids)
    coll0,               \* history: the documents it held when the call began
    docs_stream,         \* references the query stream has still to yield
    current_batch_refs,  \* local list current_batch_refs
    batch_futures,       \* local list batch_futures (future ids, oldest first)
    futures,             \* every future submitted: [refs, state], id = index
    as_completed,        \* futures concurrent.futures.as_completed has still to yield
    waiting,             \* future the submitter is blocked on (0: none)
    deleted_count,       \* the nonlocal deleted_count
    dpc,                 \* position of the submitting thread
    del_result,          \* what delete_all_documents returned or raised
    documents,           \* argument documents of batch_write (their number)
    commits              \* history: size of every commit batch_write issued

VARIABLES
    \* ---- create_demo_data (SpecPipe) ----
    pc,                  \* position of create_demo_data
    source_table,        \* rows of the seed table, ordered by email
    user_limit,          \* argument user_limit (0: None)
    users,               \* local users
    companies,           \* local companies
    projects,            \* local projects
    trending,            \* local trending
    company_events,      \* local company_events
    company_updates,     \* local company_updates
    renewals,            \* local renewals
    user_events,         \* local user_events
    loop_i,              \* index of the running for loop (tables, updates)
    fs,                  \* Firestore: collection -> its documents
    bq,                  \* BigQuery: table -> its rows
    fs0,                 \* history: fs when the run began
    bq0,                 \* history: bq when the run began
    trace,               \* history: every operation issued, in order
    result               \* what create_demo_data returned

VARIABLES
    \* ---- write_rows_to_table (SpecIngest) ----
    write_rows,          \* argument rows (their number)
    chunk_start,         \* loop variable i of range(0, len(rows), batch_size)
    retry_attempt,       \* loop variable retry_attempt
    total_inserted,      \* local total_inserted
    table_rows,          \* number of rows the table holds
    table_rows0,         \* history: table_rows when the call began
    attempts,            \* history: every insert_rows_json call and its answer
    sleeps,              \* history: chunk, failed attempt and delay of every time.sleep
    wpc,                 \* position of write_rows_to_table
    write_result         \* what write_rows_to_table returned or raised

VARIABLES
    \* ---- one call of a function on drawn inputs ----
    fn_pc,               \* "idle", "called" or "returned"
    fn_in,               \* the arguments (and the draws) of the call
    fn_out               \* what the call returned or raised

replVars == <<batch_size, max_workers, coll, coll0, docs_stream,
              current_batch_refs, batch_futures, futures, as_completed,
              waiting, deleted_count, dpc, del_result, documents, commits>>

pipeVars == <<pc, source_table, user_limit, users, companies, projects,
              trending, company_events, company_updates, renewals,
              user_events, loop_i, fs, bq, fs0, bq0, trace, result>>

ingestVars == <<write_rows, chunk_start, retry_attempt, total_inserted,
                table_rows, table_rows0, attempts, sleeps, wpc, write_result>>

fnVars == <<fn_pc, fn_in, fn_out>>

vars == <<replVars, pipeVars, ingestVars, fnVars>>

\* what the actions of one part of the model leave alone
outsideReplace == <<pipeVars, ingestVars, fnVars>>
outsidePipe == <<replVars, ingestVars, fnVars>>
outsideIngest == <<replVars, pipeVars, fnVars>>
outsideFn == <<replVars, pipeVars, ingestVars>>

NoResult == [kind |-> "none"]

(***************************************************************************)
(* Helpers.                                                                *)
(***************************************************************************)
Min(a, b) == IF a <= b THEN a ELSE b

Max(a, b) == IF a >= b THEN a ELSE b

Range(s) == {s[i] : i \in DOMAIN s}

\* the sequence lo, lo+1, ..., hi
Upto(lo, hi) == [i \in 1..(IF hi >= lo THEN hi - lo + 1 ELSE 0) |-> lo + i - 1]

\* s without its element at position i
RemoveAt(s, i) == [j \in 1..(Len(s) - 1) |-> IF j < i THEN s[j] ELSE s[j + 1]]

(***************************************************************************)
(* delete_all_documents                                                    *)
(***************************************************************************)
\* page_size = batch_size * 4
page_size == batch_size * 4

\* collection_ref.select([]).limit(page_size).stream(): the references of at
\* most page_size documents, in document-id order
QueryStream(docs) == Upto(1, Min(Cardinality(docs), page_size))

\* a looser threshold: the submitter waits one batch too late
InFlightCapLate == max_workers * 2 + 1

\* the in-flight threshold of the submit loop: max_workers * 2
InFlightCap == max_workers * 2

Resolved(f) == futures[f].state \in {"done", "failed"}

\* futures submitted and not yet resolved
Unresolved == {f \in DOMAIN futures : ~Resolved(f)}

\* futures a pool thread is executing
Running == {f \in DOMAIN futures : futures[f].state \in {"running", "committed"}}

\* a result() that re-raises only the failure of the first batch submitted
ResultRaisesFirstOnly(f) == futures[f].state = "failed" /\ f = 1

\* future.result() on a resolved batch re-raises the exception of its commit
ResultRaises(f) == futures[f].state = "failed"

\* an exit that waits only for the batches a pool thread is executing
ExitWaitsForRunning == Running

\* ThreadPoolExecutor.__exit__ is shutdown(wait=True): the batches the exit of
\* the with block waits for are all those submitted and not yet resolved
ExitWaitsFor == Unresolved

\* a batch handed over without a copy: the worker reads the list after
\* current_batch_refs.clear()
BatchCopyShared(refs) == {r \in Range(refs) : FALSE}

\* current_batch_refs.copy(): the references of the batch submitted
BatchCopy(refs) == Range(refs)

\* ExternalServiceError(message): SuccessHQError keeps message and details or {}
ExternalServiceError(msg) ==
    [kind |-> "ExternalServiceError", message |-> msg, details |-> <<>>]

\* delete_all_documents is not running on its own
ReplaceIdle ==
    /\ batch_size = 0
    /\ max_workers = 0
    /\ coll = {}
    /\ coll0 = {}
    /\ docs_stream = <<>>
    /\ current_batch_refs = <<>>
    /\ batch_futures = <<>>
    /\ futures = <<>>
    /\ as_completed = {}
    /\ waiting = 0
    /\ deleted_count = 0
    /\ dpc = "idle"
    /\ del_result = NoResult
    /\ documents = 0
    /\ commits = <<>>

\* write_rows_to_table is not running on its own
IngestIdle ==
    /\ write_rows = 0
    /\ chunk_start = 0
    /\ retry_attempt = 0
    /\ total_inserted = 0
    /\ table_rows = 0
    /\ table_rows0 = 0
    /\ attempts = <<>>
    /\ sleeps = <<>>
    /\ wpc = "idle"
    /\ write_result = NoResult

\* no single function call is under way
FnIdle ==
    /\ fn_pc = "idle"
    /\ fn_in = NoResult
    /\ fn_out = NoResult

\* create_demo_data is not running
PipeIdle ==
    /\ pc = "idle"
    /\ source_table = <<>>
    /\ user_limit = 0
    /\ users = <<>>
    /\ companies = <<>>
    /\ projects = <<>>
    /\ trending = <<>>
    /\ company_events = <<>>
    /\ company_updates = <<>>
    /\ renewals = <<>>
    /\ user_events = <<>>
    /\ loop_i = 0
    /\ fs = <<>>
    /\ bq = <<>>
    /\ fs0 = <<>>
    /\ bq0 = <<>>
    /\ trace = <<>>
    /\ result = NoResult

ReplaceInit ==
    /\ PipeIdle
    /\ IngestIdle
    /\ FnIdle
    /\ batch_size \in 1..MaxBatchSize
    /\ max_workers \in 1..MaxWorkers
    /\ \E n \in 0..MaxDocs : coll = 1..n
    /\ coll0 = coll
    /\ docs_stream = QueryStream(coll)
    /\ current_batch_refs = <<>>
    /\ batch_futures = <<>>
    /\ futures = <<>>
    /\ as_completed = {}
    /\ waiting = 0
    /\ deleted_count = 0
    /\ dpc = "loop"
    /\ del_result = NoResult
    /\ documents = 0
    /\ commits = <<>>

\* for doc in docs_stream: one iteration of the loop body
StreamNext ==
    /\ UNCHANGED outsideReplace
    /\ dpc = "loop"
    /\ docs_stream # <<>>
    /\ docs_stream' = Tail(docs_stream)
    /\ LET refs == Append(current_batch_refs, Head(docs_stream))
       IN IF Len(refs) >= batch_size
          THEN LET id == Len(futures) + 1
                   bf == Append(batch_futures, id)
               IN /\ futures' = Append(futures, [refs |-> BatchCopy(refs), state |-> "pending"])
                  /\ current_batch_refs' = <<>>
                  /\ IF Len(bf) >= InFlightCap
                     THEN /\ waiting' = Head(bf)
                          /\ batch_futures' = Tail(bf)
                          /\ dpc' = "wait_oldest"
                     ELSE /\ batch_futures' = bf
                          /\ UNCHANGED <<waiting, dpc>>
          ELSE /\ current_batch_refs' = refs
               /\ UNCHANGED <<futures, batch_futures, waiting, dpc>>
    /\ UNCHANGED <<batch_size, max_workers, coll, coll0, as_completed,
                   deleted_count, del_result, documents, commits>>

\* the stream raises while it is iterated (the store refuses the query)
StreamFails ==
    /\ UNCHANGED outsideReplace
    /\ dpc = "loop"
    /\ dpc' = "exit_err"
    /\ UNCHANGED <<batch_size, max_workers, coll, coll0, docs_stream,
                   current_batch_refs, batch_futures, futures, as_completed,
                   waiting, deleted_count, del_result, documents, commits>>

\* completed_future.result() on the oldest batch: blocks until it resolves,
\* re-raises its exception
WaitOldest ==
    /\ UNCHANGED outsideReplace
    /\ dpc = "wait_oldest"
    /\ Resolved(waiting)
    /\ dpc' = IF ResultRaises(waiting) THEN "exit_err" ELSE "loop"
    /\ waiting' = 0
    /\ UNCHANGED <<batch_size, max_workers, coll, coll0, docs_stream,
                   current_batch_refs, batch_futures, futures, as_completed,
                   deleted_count, del_result, documents, commits>>

\* the stream is exhausted: submit the remaining documents, start the drain
StreamEnd ==
    /\ UNCHANGED outsideReplace
    /\ dpc = "loop"
    /\ docs_stream = <<>>
    /\ IF current_batch_refs # <<>>
       THEN LET id == Len(futures) + 1
            IN /\ futures' = Append(futures, [refs |-> Range(current_batch_refs),
                                              state |-> "pending"])
               /\ batch_futures' = Append(batch_futures, id)
               /\ as_completed' = Range(batch_futures) \cup {id}
       ELSE /\ as_completed' = Range(batch_futures)
            /\ UNCHANGED <<futures, batch_futures>>
    /\ dpc' = "drain"
    /\ UNCHANGED <<batch_size, max_workers, coll, coll0, docs_stream,
                   current_batch_refs, waiting, deleted_count, del_result,
                   documents, commits>>

\* for future in as_completed(batch_futures): future.result(), re-raise
Drain ==
    /\ UNCHANGED outsideReplace
    /\ dpc = "drain"
    /\ IF as_completed = {}
       THEN /\ dpc' = "exit_ok"
            /\ UNCHANGED as_completed
       ELSE \E f \in as_completed :
              /\ Resolved(f)
              /\ as_completed' = as_completed \ {f}
              /\ dpc' = IF ResultRaises(f) THEN "exit_err" ELSE "drain"
    /\ UNCHANGED <<batch_size, max_workers, coll, coll0, docs_stream,
                   current_batch_refs, batch_futures, futures, waiting,
                   deleted_count, del_result, documents, commits>>

\* leaving the with block: ThreadPoolExecutor.__exit__ is shutdown(wait=True),
\* so every submitted batch runs to its end; then return deleted_count, or the
\* exception reaches the outer handler, which raises ExternalServiceError
ExecutorExit ==
    /\ UNCHANGED outsideReplace
    /\ dpc \in {"exit_ok", "exit_err"}
    /\ ExitWaitsFor = {}
    /\ IF dpc = "exit_ok"
       THEN /\ dpc' = "returned"
            /\ del_result' = [kind |-> "count", value |-> deleted_count]
       ELSE /\ dpc' = "raised"
            /\ del_result' = ExternalServiceError("Failed to delete collection")
    /\ UNCHANGED <<batch_size, max_workers, coll, coll0, docs_stream,
                   current_batch_refs, batch_futures, futures, as_completed,
                   waiting, deleted_count, documents, commits>>

\* a pool thread takes the oldest queued batch
WorkerStart(f) ==
    /\ UNCHANGED outsideReplace
    /\ futures[f].state = "pending"
    /\ \A g \in 1..(f - 1) : futures[g].state # "pending"
    /\ Cardinality(Running) < max_workers
    /\ futures' = [futures EXCEPT ![f].state = "running"]
    /\ UNCHANGED <<batch_size, max_workers, coll, coll0, docs_stream,
                   current_batch_refs, batch_futures, as_completed, waiting,
                   deleted_count, dpc, del_result, documents, commits>>

\* delete_batch: batch.delete(ref) for every ref, batch.commit(): one atomic
\* multi-delete, which the store may refuse
WorkerCommit(f) ==
    /\ UNCHANGED outsideReplace
    /\ futures[f].state = "running"
    /\ \/ /\ coll' = coll \ futures[f].refs
          /\ futures' = [futures EXCEPT ![f].state = "committed"]
       \/ /\ futures' = [futures EXCEPT ![f].state = "failed"]
          /\ UNCHANGED coll
    /\ UNCHANGED <<batch_size, max_workers, coll0, docs_stream,
                   current_batch_refs, batch_futures, as_completed, waiting,
                   deleted_count, dpc, del_result, documents, commits>>

\* delete_batch: with delete_lock: deleted_count += len(doc_refs); return
WorkerCount(f) ==
    /\ UNCHANGED outsideReplace
    /\ futures[f].state = "committed"
    /\ deleted_count' = deleted_count + Cardinality(futures[f].refs)
    /\ futures' = [futures EXCEPT ![f].state = "done"]
    /\ UNCHANGED <<batch_size, max_workers, coll, coll0, docs_stream,
                   current_batch_refs, batch_futures, as_completed, waiting,
                   dpc, del_result, documents, commits>>

(***************************************************************************)
(* batch_write                                                             *)
(***************************************************************************)
\* the sizes of the batches batch_write commits for n documents: nothing for
\* an empty list, otherwise one batch holding every document
WriteBatches(n) == IF n = 0 THEN <<>> ELSE <<n>>

\* a commit that keeps only the first StoreBatchLimit sets of the batch
FreshDocsTruncated(docs, n) ==
    {MaxDocs + Cardinality(docs) + i : i \in 1..Min(n, StoreBatchLimit)}

\* the documents a committed batch of n sets adds: .document() draws a fresh
\* auto-id for each
FreshDocs(docs, n) == {MaxDocs + Cardinality(docs) + i : i \in 1..n}

\* batch_write(collection, documents), called after the delete returned
BatchWrite ==
    /\ UNCHANGED outsideReplace
    /\ dpc = "returned"
    /\ \E n \in 0..MaxNew :
         /\ documents' = n
         /\ commits' = WriteBatches(n)
         /\ IF WriteBatches(n) = <<>>
            THEN /\ dpc' = "write_done"
                 /\ UNCHANGED coll
            ELSE \/ /\ coll' = coll \cup FreshDocs(coll, n)
                    /\ dpc' = "write_done"
                 \/ /\ dpc' = "write_failed"
                    /\ UNCHANGED coll
    /\ UNCHANGED <<batch_size, max_workers, coll0, docs_stream,
                   current_batch_refs, batch_futures, futures, as_completed,
                   waiting, deleted_count, del_result>>

ReplaceNext ==
    \/ StreamNext
    \/ StreamFails
    \/ WaitOldest
    \/ StreamEnd
    \/ Drain
    \/ ExecutorExit
    \/ \E f \in DOMAIN futures : WorkerStart(f)
    \/ \E f \in DOMAIN futures : WorkerCommit(f)
    \/ \E f \in DOMAIN futures : WorkerCount(f)
    \/ BatchWrite

SpecReplace == ReplaceInit /\ [][ReplaceNext]_vars

(***************************************************************************)
(* create_demo_data: constants and the pure generators                     *)
(***************************************************************************)
\* seconds in a day (timestamps are in seconds)
Day == 86400
\* the time datetime.now() returns during the run
Now == 400 * Day

demo_max_reg_delay_minutes == 120
demo_min_projects_per_company == 1
demo_max_projects_per_company == 3
demo_trending_metrics_count == 3
demo_trending_data_interval_days == 7
demo_trending_data_period_days == 30
\* delete_all_documents(collection_name, batch_size=500, max_workers=10)
default_batch_size == 500
\* write_rows_to_table: batch_size = 10000
bq_batch_size == 10000
\* _create_renewal_docs: amount = purchased_total * 2499
unit_price == 2499

Collections == {"users", "companies", "projects", "trending", "renewals"}
tables_to_clear == <<"company_events", "user_events">>

\* a draw whose value no operation of the model reads: one value of its range
Inert(lo, hi) == lo

RECURSIVE Concat(_)
\* sum(ss, []): the sequences of ss joined in order
Concat(ss) == IF ss = <<>> THEN <<>> ELSE Head(ss) \o Concat(Tail(ss))

RECURSIVE SortedSeq(_)
\* the integers of S in increasing order
SortedSeq(S) ==
    IF S = {} THEN <<>>
    ELSE LET m == CHOOSE x \in S : \A y \in S : x <= y
         IN <<m>> \o SortedSeq(S \ {m})

\* the orders in which the elements of S can be listed
Orders(S) == {q \in [1..Cardinality(S) -> S] : \A x \in S : \E i \in DOMAIN q : q[i] = x}

\* a document (row) an earlier run left behind
OldDoc == [name |-> 0, company |-> 0, old |-> TRUE]

\* the seed table: user i belongs to company (i + 1) \div 2, registered today
SeedUsers(n) == [i \in 1..n |-> [email |-> i, company |-> (i + 1) \div 2, offset |-> 0]]

\* _get_users: ORDER BY email, LIMIT user_limit when user_limit is truthy
GetUsers(rows, limit) ==
    IF limit # 0 THEN SubSeq(rows, 1, Min(limit, Len(rows))) ELSE rows

\* the draws randint(0, demo_max_reg_delay_minutes) of _create_user_docs, one
\* per row: all at the low end, or the odd rows at the high end
RegDelays(rows) ==
    {[i \in DOMAIN rows |-> 0],
     [i \in DOMAIN rows |-> IF i % 2 = 1 THEN demo_max_reg_delay_minutes ELSE 0]}

\* _create_user_docs: reg_date = now - offset days - randint(0, max delay) minutes
CreateUserDocs(rows, delay) ==
    [i \in DOMAIN rows |->
        [email |-> rows[i].email,
         company |-> rows[i].company,
         reg_date |-> Now - rows[i].offset * Day - delay[i] * 60]]

\* every company takes the registration time of its first user
CreateCompanyDocsFirstReg(us) ==
    LET first == SortedSeq({i \in DOMAIN us :
                              \A j \in 1..(i - 1) : us[j].company # us[i].company})
    IN [k \in DOMAIN first |->
          [name |-> us[first[k]].company, earliest_reg |-> us[first[k]].reg_date,
           boxes_bought |-> 0, boxes_prov |-> 0]]

\* _create_company_docs: one document per company name, in order of first
\* appearance, earliest_reg the minimum reg_date of its users
CreateCompanyDocs(us) ==
    LET first == SortedSeq({i \in DOMAIN us :
                              \A j \in 1..(i - 1) : us[j].company # us[i].company})
        regs(c) == {us[j].reg_date : j \in {k \in DOMAIN us : us[k].company = c}}
    IN [k \in DOMAIN first |->
          [name |-> us[first[k]].company,
           earliest_reg |-> CHOOSE r \in regs(us[first[k]].company) :
                               \A q \in regs(us[first[k]].company) : r <= q,
           boxes_bought |-> 0,
           boxes_prov |-> 0]]

\* a test that lets a period of no length through
ProjectPeriodEmptyStrict(company) == company.earliest_reg + 90 * Day > Now + 30 * Day

\* _create_project_docs: the company is skipped when its period is empty
ProjectPeriodEmpty(company) == company.earliest_reg + 90 * Day >= Now + 30 * Day

\* _create_project_docs: the dates spread over the period, before the check
\* for a future project; pd holds the draws num_projects, offsets
\* (random_offset of each project) and future (random_future_days).
\* final_days is kept in units of 1/num_projects day.
SpreadDates(company, pd) ==
    LET period_start == company.earliest_reg + 90 * Day
        period_end == Now + 30 * Day
        period_length_days == (period_end - period_start) \div Day
        n == pd.num_projects
        final(i) == Max(0, Min((period_length_days - 1) * n,
                               (i - 1) * period_length_days + pd.offsets[i] * n))
    IN [i \in 1..n |-> period_start + (final(i) * Day) \div n]

\* the dates of one company's projects without the check for a future one
ProjectDatesAsSpread(company, pd) == SpreadDates(company, pd)

\* _create_project_docs: the dates of one company's projects
ProjectDates(company, pd) ==
    LET period_end == Now + 30 * Day
        n == pd.num_projects
        dates == SpreadDates(company, pd)
        future_start == Now + Day
        future_range_days == (period_end - future_start) \div Day
    IN IF (\A i \in 1..n : dates[i] <= Now)
          /\ future_start < period_end /\ future_range_days > 0
       THEN [dates EXCEPT ![n] = future_start + pd.future * Day]
       ELSE dates

\* max(1, int(interval_days * 0.25)) for num_projects = n
RandomnessRange(company, n) ==
    Max(1, (((Now + 30 * Day) - (company.earliest_reg + 90 * Day)) \div Day) \div (4 * n))

\* the draws _create_project_docs can make for one company (a skipped company
\* draws num_projects and nothing else; its draw is not read)
ProjectDraws(company) ==
    IF ProjectPeriodEmpty(company)
    THEN {[num_projects |-> demo_min_projects_per_company, offsets |-> <<>>, future |-> 0]}
    ELSE UNION {
           {[num_projects |-> n, offsets |-> [i \in 1..n |-> o], future |-> k] :
              o \in {-RandomnessRange(company, n), RandomnessRange(company, n)},
              k \in {0, ((Now + 30 * Day) - (Now + Day)) \div Day - 1}} :
           n \in demo_min_projects_per_company..demo_max_projects_per_company}

CreateProjectDocs(cs, pds) ==
    Concat([k \in DOMAIN cs |->
        IF ProjectPeriodEmpty(cs[k]) THEN <<>>
        ELSE LET dates == ProjectDates(cs[k], pds[k])
             IN [i \in DOMAIN dates |->
                   [name |-> Inert(1, 5), company |-> cs[k].name, date |-> dates[i]]]])

\* range(0, demo_trending_data_period_days, demo_trending_data_interval_days)
TrendingOffsets ==
    [i \in 1..((demo_trending_data_period_days + demo_trending_data_interval_days - 1)
               \div demo_trending_data_interval_days) |->
        (i - 1) * demo_trending_data_interval_days]

\* _create_trending_data_docs: per company, per tracked metric, per offset
CreateTrendingDocs(cs) ==
    Concat([k \in DOMAIN cs |->
        Concat([m \in 1..demo_trending_metrics_count |->
            [i \in DOMAIN TrendingOffsets |->
                [metric |-> m, company |-> cs[k].name, value |-> Inert(10, 100),
                 date |-> Now - TrendingOffsets[i] * Day]]])])

(***************************************************************************)
(* Company events, the rollup and the renewals                             *)
(***************************************************************************)
\* int(seconds / 86400) for the time since reg
DaysSince(reg) == (Now - reg) \div Day

\* months_since_reg = int(days_since_reg / 30) + 1
MonthsSince(reg) == DaysSince(reg) \div 30 + 1

PurchasedEvent(name, ts, quantity) ==
    [timestamp |-> ts, type |-> "purchased", company |-> name, purchased |-> quantity]

\* one provisioned unit; box is the running device index of the box name
ProvisionedEvent(name, ts, box) ==
    [timestamp |-> ts, type |-> "provisioned", company |-> name, provisioned |-> 1,
     serial_number |-> Inert(100000, 2000000), box_name |-> <<name, box>>]

\* a device counter that starts again with every purchase
BoxIndexPerPurchase(boxes, device) == device

\* boxes += 1 in the loop over the devices of a later purchase: the index of
\* the device-th unit when boxes units were provisioned before the purchase
BoxIndex(boxes, device) == boxes + device

RECURSIVE LaterPurchases(_, _, _, _, _)
\* the loop for purchase in range(1, purchases), from index purchase on,
\* boxes being the device counter; d.later[purchase] holds that round's draws
LaterPurchases(name, reg, d, purchase, boxes) ==
    LET purchases == d.mult * MonthsSince(reg)
    IN IF purchase >= purchases THEN <<>>
       ELSE LET l == d.later[purchase]
                last_purchase_date == reg + ((Now - reg) * purchase) \div purchases
                prov_date == last_purchase_date + l.prov_days * Day
            IN <<PurchasedEvent(name, last_purchase_date, l.purchased)>>
               \o [device \in 1..l.last_prov |->
                      ProvisionedEvent(name, prov_date, BoxIndex(boxes, device))]
               \o LaterPurchases(name, reg, d, purchase + 1, boxes + l.last_prov)

\* _build_company_events(company_name, reg_date) under the draws d
BuildCompanyEvents(name, reg, d) ==
    <<PurchasedEvent(name, reg, d.initial_purchase)>>
    \o [device \in 1..d.initial_prov |->
           ProvisionedEvent(name, reg + d.prov_days * Day, device)]
    \o LaterPurchases(name, reg, d, 1, d.initial_prov)

\* draws of one later purchase: purchased = randint(5, 15) (sampled),
\* prov days = randint(2, 14) (sampled), last_prov = randint(purchased // 2,
\* purchased) (sampled)
LaterDraws ==
    {[purchased |-> q, prov_days |-> 2, last_prov |-> k] :
        q \in {5}, k \in {5 \div 2}}

\* the draws _build_company_events can make for a company registered at reg:
\* initial_purchase = randint(1, 15) (sampled), initial_prov = randint(1,
\* initial_purchase) (both ends), randint(1, 2) for the purchase count
CompanyDraws(reg) ==
    UNION {
      {[initial_purchase |-> ip, prov_days |-> 2, initial_prov |-> k,
        mult |-> m, later |-> l] :
          k \in {1, ip}, l \in [1..(m * MonthsSince(reg) - 1) -> LaterDraws]} :
      ip \in {3}, m \in 1..2}

\* _generate_company_events: the events of every company, in company order
GenerateCompanyEvents(cs, ds) ==
    Concat([k \in DOMAIN cs |-> BuildCompanyEvents(cs[k].name, cs[k].earliest_reg, ds[k])])

RECURSIVE SumField(_, _, _, _)
\* the dictionary entry purchases[company] (kind "purchased") or
\* provisions[company] (kind "provisioned") after the loop over events
SumField(events, company, kind, i) ==
    IF i > Len(events) THEN 0
    ELSE (IF events[i].company = company /\ events[i].type = kind
          THEN (IF kind = "purchased" THEN events[i].purchased
                ELSE events[i].provisioned)
          ELSE 0)
         + SumField(events, company, kind, i + 1)

\* a rollup that counts the events of a kind instead of adding their quantities
KindTotalCounting(events, company, kind) ==
    Cardinality({i \in DOMAIN events :
                   events[i].company = company /\ events[i].type = kind})

\* purchases.get(company, 0) / provisions.get(company, 0)
KindTotal(events, company, kind) == SumField(events, company, kind, 1)

\* the companies of the purchases alone
AllCompaniesPurchasing(events) ==
    {events[i].company : i \in {j \in DOMAIN events : events[j].type = "purchased"}}

\* set(purchases.keys()) | set(provisions.keys())
AllCompanies(events) ==
    {events[i].company : i \in {j \in DOMAIN events :
                                   events[j].type \in {"purchased", "provisioned"}}}

\* a rollup that stops at the first company listed after a greater one
GenerateCompanyUpdatesAscending(events, order) ==
    LET n == CHOOSE k \in 0..Len(order) :
                /\ \A q \in 2..k : order[q - 1] < order[q]
                /\ (k < Len(order) => k >= 1 /\ order[k] > order[k + 1])
    IN [k \in 1..n |->
          <<order[k], [purchased |-> <<KindTotal(events, order[k], "purchased")>>,
                       provisioned |-> <<KindTotal(events, order[k], "provisioned")>>]>>]

\* _generate_company_updates: one (company, totals) pair per company of
\* all_companies, listed in the order 'order' (a set's iteration order)
GenerateCompanyUpdates(events, order) ==
    [k \in DOMAIN order |->
        <<order[k], [purchased |-> <<KindTotal(events, order[k], "purchased")>>,
                     provisioned |-> <<KindTotal(events, order[k], "provisioned")>>]>>]

\* the draws of one renewal: health_index, the health of each tier (low
\* randint(10, 30), mid randint(30, 60), high randint(60, 100)) and the days
\* to the due date; one sample
RenewalDrawSample == [health_index |-> 0, low |-> 10, mid |-> 30, high |-> 60, due |-> 30]

\* samples of the draws of one renewal: every tier, the ends of the ranges
RenewalDrawSamples ==
    {RenewalDrawSample,
     [health_index |-> 2, low |-> 30, mid |-> 60, high |-> 100, due |-> 120],
     [health_index |-> 5, low |-> 30, mid |-> 60, high |-> 100, due |-> 120]}

\* the draws _create_renewal_docs can make for the updates: one sample for
\* every renewal of the call
RenewalDraws(updates) == {[k \in DOMAIN updates |-> d] : d \in RenewalDrawSamples}

\* the tiered health: health_index < 1 low, < 3 mid, otherwise high
RenewalHealth(rd) ==
    IF rd.health_index < 1 THEN rd.low
    ELSE IF rd.health_index < 3 THEN rd.mid
    ELSE rd.high

\* renewals priced on the units provisioned
CreateRenewalDocsOnProvisioned(updates, rds) ==
    [k \in DOMAIN updates |->
        [company |-> updates[k][1],
         amount |-> updates[k][2].provisioned[1] * unit_price,
         health |-> RenewalHealth(rds[k]),
         due |-> Now + rds[k].due * Day]]

\* _create_renewal_docs: one renewal per update; rds[k] holds the draws of
\* the k-th renewal
CreateRenewalDocs(updates, rds) ==
    [k \in DOMAIN updates |->
        [company |-> updates[k][1],
         amount |-> updates[k][2].purchased[1] * unit_price,
         health |-> RenewalHealth(rds[k]),
         due |-> Now + rds[k].due * Day]]

(***************************************************************************)
(* User events                                                             *)
(***************************************************************************)
\* _generate_registration_events
RegistrationEvents(us) ==
    [i \in DOMAIN us |->
        [timestamp |-> us[i].reg_date, type |-> "register",
         user |-> us[i].email, company |-> us[i].company]]

\* a ticket count that never resolves to 0
TicketCountAtLeastOne(days, troubley) == Max(1, days \div (2 * (4 - troubley)))

\* tickets = int(days_since_reg / (4 - troubley) / 2)
TicketCount(days, troubley) == days \div (2 * (4 - troubley))

\* calls = int(days_since_reg / (11 - freq) * 10)
CallCount(days, freq) == (days * 10) \div (11 - freq)

\* _generate_ticket_events for one user, troubley drawn
TicketEvents(user, troubley) ==
    LET seconds == Now - user.reg_date
        tickets == TicketCount(DaysSince(user.reg_date), troubley)
    IN [t \in 1..tickets |->
          [timestamp |-> user.reg_date + ((seconds * 10) \div (tickets * 11)) * (t - 1),
           type |-> "support_ticket", user |-> user.email, company |-> user.company,
           ticket_number |-> <<user.email, t - 1>>, ticket_driver |-> Inert(1, 3)]]

\* call_users as chosen from call_size_score = random.randint(0, 99)
CallUsers(size_score) ==
    IF size_score < 35 THEN 2
    ELSE IF size_score < 70 THEN 3
    ELSE IF size_score < 95 THEN 4
    ELSE size_score - 90 + 5

\* an event date left where the spacing put it
ClipNever(t) == t

\* if event_date > datetime.now(): event_date = datetime.now()
ClipToNow(t) == Min(t, Now)

\* a rating for every call, whatever its draws
HasRatingAlways(ud, c) == TRUE

\* if call_rating_score <= (ratey * 40): the call is rated
HasRating(ud, c) == c.rating_score <= ud.ratey * 40

\* the events of call number call_num (1-based) of a user: call, load, then
\* rating, comment and dialin when the call produced them
OneCall(user, ud, c, call_num, calls) ==
    LET seconds == Now - user.reg_date
        call_happy == c.happy_score >= ud.happy * 25
        has_rating == HasRating(ud, c)
        call_rating == IF call_happy THEN c.rating_happy ELSE c.rating_unhappy
        has_comment == c.comment_score * 3 <= ud.commenty * 33 * ud.ratey
        call_comment == IF has_rating /\ call_rating >= 3 THEN "good" ELSE "bad"
        call_length == ud.chatty * c.length
        has_dialin == c.dialin_score < 40
        call_type == IF c.type_score < 35 THEN 1
                     ELSE IF c.type_score < 70 THEN 2
                     ELSE IF c.type_score < 90 THEN 3 ELSE 4
        call_users == CallUsers(c.size_score)
        shift == (seconds \div calls + c.jitter) * call_num
        event_date == ClipToNow(user.reg_date + shift)
        session_id == <<Now, call_num - 1>>
        base(ts, type) == [timestamp |-> ts, type |-> type,
                           user |-> user.email, company |-> user.company]
    IN <<[timestamp |-> event_date, type |-> "call", user |-> user.email,
          company |-> user.company, call_duration |-> call_length,
          call_type |-> call_type, call_num_users |-> call_users,
          call_os |-> ud.os, session_id |-> session_id],
         base(event_date - 60, "load")>>
       \o (IF has_rating
           THEN <<[timestamp |-> event_date, type |-> "rating", user |-> user.email,
                   company |-> user.company, rating |-> call_rating,
                   session_id |-> session_id]>>
           ELSE <<>>)
       \o (IF has_comment
           THEN <<[timestamp |-> event_date, type |-> "comment", user |-> user.email,
                   company |-> user.company, comment |-> call_comment,
                   session_id |-> session_id]>>
           ELSE <<>>)
       \o (IF has_dialin /\ call_length # 0
           THEN <<[timestamp |-> event_date, type |-> "dialin", user |-> user.email,
                   company |-> user.company, call_duration |-> call_length]>>
           ELSE <<>>)

\* _generate_call_events for one user; ud holds the user's draws, ud.call[k]
\* the draws of call k
CallEvents(user, ud) ==
    LET calls == CallCount(DaysSince(user.reg_date), ud.freq)
    IN Concat([k \in 1..calls |-> OneCall(user, ud, ud.call[k], k, calls)])

\* the draws of one call, one sample of each
CallDrawSample ==
    [happy_score |-> 50, rating_score |-> 0, rating_happy |-> 4,
     rating_unhappy |-> 1, comment_score |-> 0, length |-> 5,
     dialin_score |-> 0, type_score |-> 0, size_score |-> 0, jitter |-> 0]

\* the draws _generate_ticket_events and _generate_call_events can make for a
\* user: troubley and freq at the low and at the high end of their ranges,
\* the rest sampled
UserDraws(user) ==
    {[troubley |-> e[1], os |-> Inert(1, 5), freq |-> e[2], happy |-> 1, ratey |-> 1,
      commenty |-> 1, chatty |-> 1,
      call |-> [k \in 1..CallCount(DaysSince(user.reg_date), e[2]) |-> CallDrawSample]] :
        e \in {<<0, 1>>, <<3, 10>>}}

\* _generate_user_events: reg_events + ticket_events + call_events
GenerateUserEvents(us, uds) ==
    RegistrationEvents(us)
    \o Concat([i \in DOMAIN us |-> TicketEvents(us[i], uds[i].troubley)])
    \o Concat([i \in DOMAIN us |-> CallEvents(us[i], uds[i])])

(***************************************************************************)
(* create_demo_data: the store operations as the pipeline sees them        *)
(***************************************************************************)
\* the elements of docs at the positions I, in order
KeepAt(docs, I) == [k \in 1..Cardinality(I) |-> docs[SortedSeq(I)[k]]]

\* number of deletion batches delete_all_documents submits for docs with its
\* default arguments: the stream yields at most 4 * batch_size references
DeleteBatches(docs) ==
    (Min(Len(docs), 4 * default_batch_size) + default_batch_size - 1)
        \div default_batch_size

\* the batch that carries the document at position i (0: it is not streamed)
BatchOf(docs, i) ==
    IF i > 4 * default_batch_size THEN 0
    ELSE (i + default_batch_size - 1) \div default_batch_size

\* the collection after delete_all_documents returned
AfterDeleteAll(docs) == KeepAt(docs, {i \in DOMAIN docs : BatchOf(docs, i) = 0})

\* the collections delete_all_documents can leave when it raises: the stream
\* failed or a batch did, the other batches may have committed
AfterFailedDelete(docs) ==
    {KeepAt(docs, {i \in DOMAIN docs : BatchOf(docs, i) \notin S}) :
        S \in {T \in SUBSET (1..DeleteBatches(docs)) :
                 T # 1..DeleteBatches(docs) \/ DeleteBatches(docs) = 0}}

\* the tables write_rows_to_table can leave when it raises: the chunks before
\* the failing one stay inserted
AfterFailedInsert(rows, new) ==
    {rows \o SubSeq(new, 1, k * bq_batch_size) :
        k \in 0..((Len(new) + bq_batch_size - 1) \div bq_batch_size - 1)}

\* update_document_by_field("companies", "name", value, fields): position of
\* the first document whose name is value (0: none)
FirstMatch(docs, value) ==
    IF \E i \in DOMAIN docs : docs[i].name = value
    THEN CHOOSE i \in DOMAIN docs :
            /\ docs[i].name = value
            /\ \A j \in 1..(i - 1) : docs[j].name # value
    ELSE 0

\* a set() in place of the update(): the document becomes the patch
UpdateFieldsReplacing(doc, boxes_bought, boxes_prov) ==
    [boxes_bought |-> boxes_bought, boxes_prov |-> boxes_prov]

\* doc.reference.update(update_fields): the fields named are set, the others
\* are kept
UpdateFields(doc, boxes_bought, boxes_prov) ==
    [f \in DOMAIN doc \cup {"boxes_bought", "boxes_prov"} |-> IF f = "boxes_bought" THEN boxes_bought
                          ELSE IF f = "boxes_prov" THEN boxes_prov
                          ELSE doc[f]]

\* the handlers that log a failure of their operation and go on:
\* _clear_bigquery_tables and the loop of
\* _update_company_docs_with_purchases_and_provisions
SwallowedMore == {"truncate", "patch", "write"}

\* only the truncation handler logs and goes on
SwallowedOnlyTruncate == {"truncate"}

Swallowed == {"truncate", "patch"}

\* the except clause of create_demo_data
FailureResult(e) ==
    [success |-> FALSE, message |-> <<"Demo data creation failed", e>>, error |-> e]

\* the return of the try block
SuccessResult ==
    [success |-> TRUE, message |-> "Demo data created successfully",
     stats |-> [users |-> Len(users), companies |-> Len(companies),
                projects |-> Len(projects), trending_entries |-> Len(trending),
                renewals |-> Len(renewals), company_events |-> Len(company_events),
                user_events |-> Len(user_events)]]

\* an entry of the trace
Op(kind, target, company, stage, ok) ==
    [op |-> kind, target |-> target, company |-> company, stage |-> stage, ok |-> ok]

\* an operation of kind 'kind' ended: the run goes on to next, or the
\* exception reaches the handler of create_demo_data, which returns
Outcome(kind, ok, next) ==
    IF ok \/ kind \in Swallowed
    THEN pc' = next /\ UNCHANGED result
    ELSE pc' = "done" /\ result' = FailureResult(kind)

\* firestore_service.delete_all_documents(c)
DeleteStep(c, stage, next) ==
    \E ok \in BOOLEAN :
      /\ trace' = Append(trace, Op("delete", c, 0, stage, ok))
      /\ IF ok
         THEN fs' = [fs EXCEPT ![c] = AfterDeleteAll(fs[c])]
         ELSE \E rest \in AfterFailedDelete(fs[c]) : fs' = [fs EXCEPT ![c] = rest]
      /\ Outcome("delete", ok, next)

\* firestore_service.batch_write(c, docs): nothing is sent for an empty list
WriteStep(c, docs, stage, next) ==
    IF docs = <<>>
    THEN pc' = next /\ UNCHANGED <<trace, fs, result>>
    ELSE \E ok \in BOOLEAN :
           /\ trace' = Append(trace, Op("write", c, 0, stage, ok))
           /\ fs' = IF ok THEN [fs EXCEPT ![c] = fs[c] \o docs] ELSE fs
           /\ Outcome("write", ok, next)

\* bigquery_service.write_rows_to_table(t, rows): nothing is sent for no rows
InsertStep(t, rows, stage, next) ==
    IF rows = <<>>
    THEN pc' = next /\ UNCHANGED <<trace, bq, result>>
    ELSE \E ok \in BOOLEAN :
           /\ trace' = Append(trace, Op("insert", t, 0, stage, ok))
           /\ IF ok
              THEN bq' = [bq EXCEPT ![t] = bq[t] \o rows]
              ELSE \E left \in AfterFailedInsert(bq[t], rows) :
                      bq' = [bq EXCEPT ![t] = left]
           /\ Outcome("insert", ok, next)

(***************************************************************************)
(* create_demo_data: the pipeline                                          *)
(***************************************************************************)
PipeInit ==
    /\ ReplaceIdle
    /\ IngestIdle
    /\ FnIdle
    /\ pc = "delete_users"
    /\ source_table \in {SeedUsers(0), SeedUsers(MaxSeedUsers)}
    /\ user_limit \in {0, MaxSeedUsers - 1}
    /\ users = <<>>
    /\ companies = <<>>
    /\ projects = <<>>
    /\ trending = <<>>
    /\ company_events = <<>>
    /\ company_updates = <<>>
    /\ renewals = <<>>
    /\ user_events = <<>>
    /\ loop_i = 0
    /\ \E n \in 0..MaxPre :
         /\ fs = [c \in Collections |-> [i \in 1..n |-> OldDoc]]
         /\ bq = [t \in Range(tables_to_clear) |-> [i \in 1..n |-> OldDoc]]
    /\ fs0 = fs
    /\ bq0 = bq
    /\ trace = <<>>
    /\ result = NoResult

\* _create_user_collection: delete_all_documents("users")
DeleteUsers ==
    /\ UNCHANGED outsidePipe
    /\ pc = "delete_users"
    /\ DeleteStep("users", "ReplaceUsers", "fetch_users")
    /\ UNCHANGED <<source_table, user_limit, users, companies, projects, trending,
                   company_events, company_updates, renewals, user_events,
                   loop_i, bq, fs0, bq0>>

\* _create_user_collection: _get_users, the empty check, _create_user_docs
FetchUsers ==
    /\ UNCHANGED outsidePipe
    /\ pc = "fetch_users"
    /\ \E ok \in BOOLEAN :
         /\ trace' = Append(trace, Op("fetch", "user", 0, "FetchUsers", ok))
         /\ LET rows == GetUsers(source_table, user_limit)
            IN IF ~ok
               THEN Outcome("fetch", FALSE, "write_users") /\ UNCHANGED users
               ELSE IF rows = <<>>
               THEN Outcome("no_users", FALSE, "write_users") /\ UNCHANGED users
               ELSE /\ \E delay \in RegDelays(rows) :
                         users' = CreateUserDocs(rows, delay)
                    /\ Outcome("fetch", TRUE, "write_users")
    /\ UNCHANGED <<source_table, user_limit, companies, projects, trending,
                   company_events, company_updates, renewals, user_events,
                   loop_i, fs, bq, fs0, bq0>>

\* _create_user_collection: batch_write("users", users)
WriteUsers ==
    /\ UNCHANGED outsidePipe
    /\ pc = "write_users"
    /\ WriteStep("users", users, "ReplaceUsers", "delete_companies")
    /\ UNCHANGED <<source_table, user_limit, users, companies, projects, trending,
                   company_events, company_updates, renewals, user_events,
                   loop_i, bq, fs0, bq0>>

\* _create_company_collection: delete_all_documents, _create_company_docs
DeleteCompanies ==
    /\ UNCHANGED outsidePipe
    /\ pc = "delete_companies"
    /\ DeleteStep("companies", "ReplaceCompanies", "write_companies")
    /\ companies' = IF pc' = "done" THEN companies ELSE CreateCompanyDocs(users)
    /\ UNCHANGED <<source_table, user_limit, users, projects, trending,
                   company_events, company_updates, renewals, user_events,
                   loop_i, bq, fs0, bq0>>

\* _create_company_collection: batch_write("companies", companies)
WriteCompanies ==
    /\ UNCHANGED outsidePipe
    /\ pc = "write_companies"
    /\ WriteStep("companies", companies, "ReplaceCompanies", "delete_projects")
    /\ UNCHANGED <<source_table, user_limit, users, companies, projects, trending,
                   company_events, company_updates, renewals, user_events,
                   loop_i, bq, fs0, bq0>>

\* _create_projects_collection: delete_all_documents, _create_project_docs
DeleteProjects ==
    /\ UNCHANGED outsidePipe
    /\ pc = "delete_projects"
    /\ DeleteStep("projects", "ReplaceProjects", "write_projects")
    /\ IF pc' = "done" THEN UNCHANGED projects
       ELSE \E pds \in [DOMAIN companies -> UNION {ProjectDraws(companies[k]) :
                                                     k \in DOMAIN companies}] :
              /\ \A k \in DOMAIN companies : pds[k] \in ProjectDraws(companies[k])
              /\ projects' = CreateProjectDocs(companies, pds)
    /\ UNCHANGED <<source_table, user_limit, users, companies, trending,
                   company_events, company_updates, renewals, user_events,
                   loop_i, bq, fs0, bq0>>

\* _create_projects_collection: batch_write("projects", projects)
WriteProjects ==
    /\ UNCHANGED outsidePipe
    /\ pc = "write_projects"
    /\ WriteStep("projects", projects, "ReplaceProjects", "delete_trending")
    /\ UNCHANGED <<source_table, user_limit, users, companies, projects, trending,
                   company_events, company_updates, renewals, user_events,
                   loop_i, bq, fs0, bq0>>

\* _create_trending_collection: delete_all_documents, _create_trending_data_docs
DeleteTrending ==
    /\ UNCHANGED outsidePipe
    /\ pc = "delete_trending"
    /\ DeleteStep("trending", "ReplaceTrending", "write_trending")
    /\ trending' = IF pc' = "done" THEN trending ELSE CreateTrendingDocs(companies)
    /\ UNCHANGED <<source_table, user_limit, users, companies, projects,
                   company_events, company_updates, renewals, user_events,
                   loop_i, bq, fs0, bq0>>

\* _create_trending_collection: batch_write("trending", trending_data)
WriteTrending ==
    /\ UNCHANGED outsidePipe
    /\ pc = "write_trending"
    /\ WriteStep("trending", trending, "ReplaceTrending", "synth_company")
    /\ UNCHANGED <<source_table, user_limit, users, companies, projects, trending,
                   company_events, company_updates, renewals, user_events,
                   loop_i, bq, fs0, bq0>>

\* company_events = self._generate_company_events(companies)
SynthesizeCompanyEvents ==
    /\ UNCHANGED outsidePipe
    /\ pc = "synth_company"
    /\ \E ds \in [DOMAIN companies -> UNION {CompanyDraws(companies[k].earliest_reg) :
                                               k \in DOMAIN companies}] :
         /\ \A k \in DOMAIN companies : ds[k] \in CompanyDraws(companies[k].earliest_reg)
         /\ company_events' = GenerateCompanyEvents(companies, ds)
    /\ trace' = Append(trace, Op("synthesize", "company_events", 0,
                                 "SynthesizeCompanyEvents", TRUE))
    /\ pc' = "truncate"
    /\ loop_i' = 1
    /\ UNCHANGED <<source_table, user_limit, users, companies, projects, trending,
                   company_updates, renewals, user_events, fs, bq, fs0, bq0, result>>

\* the loop over the tables falls through to the insert, with no delay
AfterTruncationNoDelay == "insert_company_events"

\* _clear_bigquery_tables: what follows the loop over tables_to_clear
AfterTruncation == "settle"

\* _clear_bigquery_tables: one round of the loop over tables_to_clear; a
\* failure of delete_all_rows is logged as a warning
Truncate ==
    /\ UNCHANGED outsidePipe
    /\ pc = "truncate"
    /\ \E ok \in BOOLEAN :
         /\ trace' = Append(trace, Op("truncate", tables_to_clear[loop_i], 0,
                                      "TruncateAnalyticsTables", ok))
         /\ bq' = IF ok THEN [bq EXCEPT ![tables_to_clear[loop_i]] = <<>>] ELSE bq
         /\ Outcome("truncate", ok,
                    IF loop_i < Len(tables_to_clear) THEN "truncate" ELSE AfterTruncation)
    /\ loop_i' = IF pc' = "truncate" THEN loop_i + 1 ELSE 0
    /\ UNCHANGED <<source_table, user_limit, users, companies, projects, trending,
                   company_events, company_updates, renewals, user_events,
                   fs, fs0, bq0>>

\* _clear_bigquery_tables: time.sleep(2)
Settle ==
    /\ UNCHANGED outsidePipe
    /\ pc = "settle"
    /\ trace' = Append(trace, Op("sleep", "settle", 0, "TruncateAnalyticsTables", TRUE))
    /\ pc' = "insert_company_events"
    /\ UNCHANGED <<source_table, user_limit, users, companies, projects, trending,
                   company_events, company_updates, renewals, user_events,
                   loop_i, fs, bq, fs0, bq0, result>>

\* _write_company_events_to_bigquery
IngestCompanyEvents ==
    /\ UNCHANGED outsidePipe
    /\ pc = "insert_company_events"
    /\ InsertStep("company_events", company_events, "IngestCompanyEvents", "aggregate")
    /\ UNCHANGED <<source_table, user_limit, users, companies, projects, trending,
                   company_events, company_updates, renewals, user_events,
                   loop_i, fs, fs0, bq0>>

\* company_updates = self._generate_company_updates(company_events)
AggregateCompanyEvents ==
    /\ UNCHANGED outsidePipe
    /\ pc = "aggregate"
    /\ \E order \in Orders(AllCompanies(company_events)) :
         company_updates' = GenerateCompanyUpdates(company_events, order)
    /\ trace' = Append(trace, Op("aggregate", "company_events", 0,
                                 "AggregateCompanyEvents", TRUE))
    /\ pc' = "delete_renewals"
    /\ UNCHANGED <<source_table, user_limit, users, companies, projects, trending,
                   company_events, renewals, user_events, loop_i, fs, bq, fs0,
                   bq0, result>>

\* _create_renewals_collection: delete_all_documents, _create_renewal_docs
DeleteRenewals ==
    /\ UNCHANGED outsidePipe
    /\ pc = "delete_renewals"
    /\ DeleteStep("renewals", "ReplaceRenewals", "write_renewals")
    /\ IF pc' = "done"
       THEN UNCHANGED renewals
       ELSE \E rds \in RenewalDraws(company_updates) :
               renewals' = CreateRenewalDocs(company_updates, rds)
    /\ UNCHANGED <<source_table, user_limit, users, companies, projects, trending,
                   company_events, company_updates, user_events, loop_i, bq,
                   fs0, bq0>>

\* _create_renewals_collection: batch_write("renewals", renewals)
WriteRenewals ==
    /\ UNCHANGED outsidePipe
    /\ pc = "write_renewals"
    /\ WriteStep("renewals", renewals, "ReplaceRenewals",
                 IF company_updates = <<>> THEN "synth_user" ELSE "patch")
    /\ loop_i' = IF pc' = "patch" THEN 1 ELSE 0
    /\ UNCHANGED <<source_table, user_limit, users, companies, projects, trending,
                   company_events, company_updates, renewals, user_events,
                   bq, fs0, bq0>>

\* _update_company_docs_with_purchases_and_provisions: one round of the loop;
\* update_document_by_field raises when the store fails or no document
\* matches, and the loop logs the error and goes on
PatchCompanyTotals ==
    /\ UNCHANGED outsidePipe
    /\ pc = "patch"
    /\ LET company_name == company_updates[loop_i][1]
           update_data == company_updates[loop_i][2]
           at == FirstMatch(fs["companies"], company_name)
       IN \E ok \in {TRUE, FALSE} :
            /\ ok => at # 0
            /\ trace' = Append(trace, Op("patch", "companies", company_name,
                                         "PatchCompanyTotals", ok))
            /\ fs' = IF ok
                     THEN [fs EXCEPT !["companies"][at] =
                              UpdateFields(@, update_data.purchased[1],
                                           update_data.provisioned[1])]
                     ELSE fs
            /\ Outcome("patch", ok,
                       IF loop_i < Len(company_updates) THEN "patch" ELSE "synth_user")
    /\ loop_i' = IF pc' = "patch" THEN loop_i + 1 ELSE 0
    /\ UNCHANGED <<source_table, user_limit, users, companies, projects, trending,
                   company_events, company_updates, renewals, user_events,
                   bq, fs0, bq0>>

\* user_events = self._generate_user_events(users)
SynthesizeUserEvents ==
    /\ UNCHANGED outsidePipe
    /\ pc = "synth_user"
    /\ \E uds \in [DOMAIN users -> UNION {UserDraws(users[i]) : i \in DOMAIN users}] :
         /\ \A i \in DOMAIN users : uds[i] \in UserDraws(users[i])
         /\ user_events' = GenerateUserEvents(users, uds)
    /\ trace' = Append(trace, Op("synthesize", "user_events", 0,
                                 "SynthesizeUserEvents", TRUE))
    /\ pc' = "insert_user_events"
    /\ UNCHANGED <<source_table, user_limit, users, companies, projects, trending,
                   company_events, company_updates, renewals, loop_i, fs, bq,
                   fs0, bq0, result>>

\* _write_user_events_to_bigquery
IngestUserEvents ==
    /\ UNCHANGED outsidePipe
    /\ pc = "insert_user_events"
    /\ InsertStep("user_events", user_events, "IngestUserEvents", "return")
    /\ UNCHANGED <<source_table, user_limit, users, companies, projects, trending,
                   company_events, company_updates, renewals, user_events,
                   loop_i, fs, fs0, bq0>>

\* return {"success": True, ..., "stats": {...}}
Return ==
    /\ UNCHANGED outsidePipe
    /\ pc = "return"
    /\ result' = SuccessResult
    /\ pc' = "done"
    /\ UNCHANGED <<source_table, user_limit, users, companies, projects, trending,
                   company_events, company_updates, renewals, user_events,
                   loop_i, fs, bq, fs0, bq0, trace>>

PipeNext ==
    \/ DeleteUsers
    \/ FetchUsers
    \/ WriteUsers
    \/ DeleteCompanies
    \/ WriteCompanies
    \/ DeleteProjects
    \/ WriteProjects
    \/ DeleteTrending
    \/ WriteTrending
    \/ SynthesizeCompanyEvents
    \/ Truncate
    \/ Settle
    \/ IngestCompanyEvents
    \/ AggregateCompanyEvents
    \/ DeleteRenewals
    \/ WriteRenewals
    \/ PatchCompanyTotals
    \/ SynthesizeUserEvents
    \/ IngestUserEvents
    \/ Return

SpecPipe == PipeInit /\ [][PipeNext]_vars


(***************************************************************************)
(* write_rows_to_table: the chunked insert and its retries                 *)
(***************************************************************************)
\* max_retries = 3
max_retries == 3
\* base_delay = 1
base_delay == 1

\* what insert_rows_json can answer: it returns no errors, it raises, or it
\* returns a list of row errors (which write_rows_to_table raises as an
\* ExternalServiceError inside the retry loop); not_found tells whether the
\* text of the error contains "not found"
Answers ==
    {[kind |-> "ok", not_found |-> FALSE]}
    \cup {[kind |-> k, not_found |-> b] : k \in {"raise", "row_errors"}, b \in BOOLEAN}

\* a slice taken from the start of the rows whatever the chunk: its length
ChunkLenFromStart == Min(bq_batch_size, write_rows)

\* batch = rows[i : i + batch_size]: its length
ChunkLen == Min(bq_batch_size, write_rows - chunk_start)

\* a backoff that starts one doubling later
RetryDelayDoubled(attempt) == base_delay * 2 ^ (attempt + 1)

\* delay = base_delay * (2**retry_attempt)
RetryDelay(attempt) == base_delay * 2 ^ attempt

\* every error is retried while the chunk has attempts left
RetryableAnyError(answer) == retry_attempt < max_retries - 1

\* a "not found" error is retried however many attempts the chunk has made
RetryableWhileNotFound(answer) == answer.not_found

\* one attempt more before the ingest gives up
RetryableOnceMore(answer) == answer.not_found /\ retry_attempt < max_retries

\* "not found" in error_str.lower() and retry_attempt < max_retries - 1
Retryable(answer) == answer.not_found /\ retry_attempt < max_retries - 1

IngestInit ==
    /\ ReplaceIdle
    /\ PipeIdle
    /\ FnIdle
    /\ write_rows \in {n \in {c * bq_batch_size - d : c \in 0..MaxChunks, d \in {0, 1}} : n >= 0}
    /\ chunk_start = 0
    /\ retry_attempt = 0
    /\ total_inserted = 0
    /\ table_rows \in {0, 1}
    /\ table_rows0 = table_rows
    /\ attempts = <<>>
    /\ sleeps = <<>>
    /\ wpc = "start"
    /\ write_result = NoResult

\* if not rows: return ...; otherwise the first chunk, first attempt
WriteBegin ==
    /\ UNCHANGED outsideIngest
    /\ wpc = "start"
    /\ IF write_rows = 0
       THEN /\ wpc' = "returned"
            /\ write_result' = [success |-> TRUE, rows_inserted |-> 0]
       ELSE /\ wpc' = "attempt"
            /\ UNCHANGED write_result
    /\ UNCHANGED <<write_rows, chunk_start, retry_attempt, total_inserted,
                   table_rows, table_rows0, attempts, sleeps>>

\* errors = self.client.insert_rows_json(table_ref, batch) and what follows
\* it in the retry loop, up to the sleep, the next chunk, the return or the
\* handler that raises ExternalServiceError
InsertAttempt ==
    /\ UNCHANGED outsideIngest
    /\ wpc = "attempt"
    /\ \E answer \in Answers :
         /\ attempts' = Append(attempts, [chunk |-> chunk_start \div bq_batch_size + 1,
                                          attempt |-> retry_attempt,
                                          answer |-> answer])
         /\ IF answer.kind = "ok"
            THEN /\ total_inserted' = total_inserted + ChunkLen
                 /\ table_rows' = table_rows + ChunkLen
                 /\ retry_attempt' = 0
                 /\ chunk_start' = chunk_start + bq_batch_size
                 /\ IF chunk_start + bq_batch_size < write_rows
                    THEN wpc' = "attempt" /\ UNCHANGED write_result
                    ELSE /\ wpc' = "returned"
                         /\ write_result' = [success |-> TRUE,
                                             rows_inserted |-> total_inserted + ChunkLen]
            ELSE /\ UNCHANGED <<total_inserted, table_rows, retry_attempt, chunk_start>>
                 /\ IF Retryable(answer)
                    THEN wpc' = "sleep" /\ UNCHANGED write_result
                    ELSE /\ wpc' = "raised"
                         /\ write_result' = ExternalServiceError("Error writing rows to table")
    /\ UNCHANGED <<write_rows, table_rows0, sleeps>>

\* time.sleep(delay); continue
RetrySleep ==
    /\ UNCHANGED outsideIngest
    /\ wpc = "sleep"
    /\ sleeps' = Append(sleeps, [chunk |-> chunk_start \div bq_batch_size + 1,
                                  after |-> retry_attempt,
                                  delay |-> RetryDelay(retry_attempt)])
    /\ retry_attempt' = retry_attempt + 1
    /\ wpc' = "attempt"
    /\ UNCHANGED <<write_rows, chunk_start, total_inserted, table_rows,
                   table_rows0, attempts, write_result>>

IngestNext ==
    \/ WriteBegin
    \/ InsertAttempt
    \/ RetrySleep

SpecIngest == IngestInit /\ [][IngestNext]_vars

\* write_rows_to_table runs in one thread: a call of insert_rows_json answers
\* and a time.sleep ends, so a step that is possible is eventually taken
SpecIngestFair == IngestInit /\ [][IngestNext]_vars /\ WF_vars(IngestNext)

(***************************************************************************)
(* Claims about write_rows_to_table (SpecIngest).                          *)
(***************************************************************************)
\* the number of answers so far whose error text contains "not found"
NotFoundAnswers == Cardinality({k \in DOMAIN attempts : attempts[k].answer.not_found})

\* C11: a chunk is retried only after an error whose text contains "not
\* found" (every sleep follows such an answer, any other error is the last
\* attempt); a call that met exactly two such errors and no other returns with
\* every row inserted and exactly 2 sleeps; a call whose every answer is such
\* an error raises after exactly 3 attempts, all on the first chunk.
C11_RetryOnlyNotFound ==
    /\ \A k \in DOMAIN attempts :
         attempts[k].answer.kind # "ok" =>
            IF attempts[k].answer.not_found /\ attempts[k].attempt < 2
            THEN k = Len(attempts) => wpc \in {"sleep", "attempt"}
            ELSE k = Len(attempts) /\ wpc = "raised"
    /\ Len(sleeps) + (IF wpc = "sleep" THEN 1 ELSE 0)
          = Cardinality({k \in DOMAIN attempts :
                           attempts[k].answer.not_found /\ attempts[k].attempt < 2})
    /\ (wpc = "returned" /\ NotFoundAnswers = 2) =>
          /\ total_inserted = write_rows
          /\ table_rows = table_rows0 + write_rows
          /\ Len(sleeps) = 2
    /\ (wpc = "raised" /\ \A k \in DOMAIN attempts : attempts[k].answer.not_found) =>
          /\ Len(attempts) = 3
          /\ \A k \in DOMAIN attempts : attempts[k].chunk = 1
          /\ table_rows = table_rows0

\* C11 (witness): rows of more than one chunk are all inserted after the store
\* answered "not found" exactly twice, with 2 sleeps.
C11_Witness ==
    /\ wpc = "returned"
    /\ write_rows > bq_batch_size
    /\ NotFoundAnswers = 2
    /\ Len(sleeps) = 2
    /\ table_rows = table_rows0 + write_rows

\* C12: the error write_rows_to_table raises reports the number of rows the
\* chunks before the abort inserted.
C12_FailureReportsRowsInserted ==
    wpc = "raised" =>
        /\ "rows_inserted" \in DOMAIN write_result.details
        /\ write_result.details["rows_inserted"] = total_inserted

\* an answer that is an error whose text does not contain "not found"
NonTransient(answer) == answer.kind # "ok" /\ ~answer.not_found

\* C28: an error without "not found" in its text, on any attempt of any
\* chunk, is the last insert call of write_rows_to_table, which has raised;
\* no sleep follows it: every sleep is that of an earlier failed attempt.
C28_NonTransientAbortsAtOnce ==
    \A k \in DOMAIN attempts :
        NonTransient(attempts[k].answer) =>
            /\ k = Len(attempts)
            /\ wpc = "raised"
            /\ write_result.kind = "ExternalServiceError"
            /\ Len(sleeps) = Cardinality({j \in 1..(k - 1) : attempts[j].answer.kind # "ok"})

\* C28 (witness): the second attempt of the second chunk of three met an
\* error without "not found"; the call raised with no attempt after it.
C28_Witness ==
    /\ wpc = "raised"
    /\ write_rows > 2 * bq_batch_size
    /\ attempts # <<>>
    /\ attempts[Len(attempts)].chunk = 2
    /\ attempts[Len(attempts)].attempt = 1
    /\ NonTransient(attempts[Len(attempts)].answer)
    /\ Len(sleeps) = 1

\* C29: the sleeps of a chunk last 1 second after its first failed attempt
\* and 2 seconds after its second, in that order and once each; no sleep
\* follows a third attempt; every sleep follows a failed attempt of its chunk
\* and is followed by the next attempt of the same chunk.
C29_BackoffOneThenTwo ==
    /\ \A j \in DOMAIN sleeps :
          /\ sleeps[j].after \in {0, 1}
          /\ sleeps[j].delay = (IF sleeps[j].after = 0 THEN 1 ELSE 2)
          /\ \A i \in DOMAIN sleeps :
                (sleeps[i].chunk = sleeps[j].chunk /\ sleeps[i].after = sleeps[j].after)
                => i = j
          /\ (sleeps[j].after = 1 =>
                \E i \in 1..(j - 1) :
                   sleeps[i].chunk = sleeps[j].chunk /\ sleeps[i].after = 0)
          /\ \E k \in DOMAIN attempts :
                /\ attempts[k].chunk = sleeps[j].chunk
                /\ attempts[k].attempt = sleeps[j].after
                /\ attempts[k].answer.kind # "ok"
          /\ \/ \E k \in DOMAIN attempts :
                   /\ attempts[k].chunk = sleeps[j].chunk
                   /\ attempts[k].attempt = sleeps[j].after + 1
             \/ /\ j = Len(sleeps)
                /\ wpc = "attempt"
                /\ chunk_start \div bq_batch_size + 1 = sleeps[j].chunk
                /\ retry_attempt = sleeps[j].after + 1
    /\ \A k \in DOMAIN attempts :
          (attempts[k].attempt = 2 /\ attempts[k].answer.kind # "ok") =>
             /\ wpc = "raised"
             /\ k = Len(attempts)
             /\ sleeps # <<>>
             /\ sleeps[Len(sleeps)].after = 1

\* C29 (witness): the second chunk failed three times with "not found": the
\* call slept 1 second, then 2 seconds, and raised after the third attempt
\* without a third sleep.
C29_Witness ==
    /\ wpc = "raised"
    /\ Len(attempts) = 4
    /\ attempts[4].chunk = 2
    /\ attempts[4].attempt = 2
    /\ attempts[4].answer.not_found
    /\ sleeps = <<[chunk |-> 2, after |-> 0, delay |-> 1],
                  [chunk |-> 2, after |-> 1, delay |-> 2]>>

\* the number of chunks of the rows handed to write_rows_to_table
Chunks == (write_rows + bq_batch_size - 1) \div bq_batch_size

\* write_rows_to_table has returned or raised
WriteEnded == wpc \in {"returned", "raised"}

\* C30: write_rows_to_table ends, by returning or by raising, whatever the
\* store answers; no chunk is attempted more than 3 times or slept on more
\* than twice, so a call on C chunks makes at most 3 x C insert calls and at
\* most 2 x C sleeps.
C30_TerminatesWithinBudget ==
    /\ [](/\ Len(attempts) <= 3 * Chunks
          /\ Len(sleeps) <= 2 * Chunks
          /\ \A c \in 1..Chunks :
                /\ Cardinality({k \in DOMAIN attempts : attempts[k].chunk = c}) <= 3
                /\ Cardinality({j \in DOMAIN sleeps : sleeps[j].chunk = c}) <= 2)
    /\ <>WriteEnded

\* C30 (witness): a call on three chunks has returned after a chunk used its
\* whole budget of 3 attempts and 2 sleeps and a later chunk was retried too.
C30_Witness ==
    /\ wpc = "returned"
    /\ Chunks = 3
    /\ Cardinality({k \in DOMAIN attempts : attempts[k].chunk = 1}) = 3
    /\ Cardinality({k \in DOMAIN attempts : attempts[k].chunk = 2}) = 2
    /\ Len(sleeps) = 3

\* the chunks whose insert call answered without error, in call order
InsertedChunks ==
    LET ok == {k \in DOMAIN attempts : attempts[k].answer.kind = "ok"}
    IN [i \in 1..Cardinality(ok) |->
          attempts[CHOOSE k \in ok : Cardinality({j \in ok : j <= k}) = i].chunk]

\* the number of rows of the first m chunks of the input
RowsOfFirst(m) == Min(write_rows, m * bq_batch_size)

\* C31: the chunks inserted are chunks 1, 2, ... in input order, each once,
\* and the table gained exactly their rows; a call that returned inserted
\* every chunk and the table gained every input row once; a call that raised
\* at chunk k left the table with exactly the rows of the chunks before k.
C31_ChunksInOrderOnce ==
    /\ InsertedChunks = [i \in 1..Len(InsertedChunks) |-> i]
    /\ table_rows = table_rows0 + RowsOfFirst(Len(InsertedChunks))
    /\ (wpc = "returned" =>
          /\ Len(InsertedChunks) = (write_rows + bq_batch_size - 1) \div bq_batch_size
          /\ table_rows = table_rows0 + write_rows)
    /\ (wpc = "raised" =>
          LET k == attempts[Len(attempts)].chunk
          IN /\ Len(InsertedChunks) = k - 1
             /\ table_rows = table_rows0 + (k - 1) * bq_batch_size
             /\ table_rows < table_rows0 + write_rows)

\* C31 (witness): a call on three chunks, the last one short, raised at the
\* third chunk; the table keeps the rows of the first two chunks.
C31_Witness ==
    /\ wpc = "raised"
    /\ write_rows = 3 * bq_batch_size - 1
    /\ attempts[Len(attempts)].chunk = 3
    /\ InsertedChunks = <<1, 2>>
    /\ table_rows = table_rows0 + 2 * bq_batch_size


(***************************************************************************)
(* update_document_by_field, one call                                      *)
(***************************************************************************)
\* the documents a companies collection can hold: with or without totals
SomeCompanyDocs ==
    {[name |-> n, earliest_reg |-> r, boxes_bought |-> b, boxes_prov |-> 0] :
        n \in 1..2, r \in {0, Day}, b \in {0, 7}}
    \cup {[name |-> n, earliest_reg |-> 0] : n \in 1..2}

UpdateInit ==
    /\ ReplaceIdle
    /\ PipeIdle
    /\ IngestIdle
    /\ fn_pc = "called"
    /\ \E n \in 0..MaxColl :
         \E docs \in [1..n -> SomeCompanyDocs] :
            \E v \in 1..3 :
               \E b \in {7, 9} :
                  fn_in = [docs |-> docs, field_value |-> v,
                           update_fields |-> [boxes_bought |-> b, boxes_prov |-> 4]]
    /\ fn_out = NoResult

\* update_document_by_field("companies", "name", field_value, update_fields):
\* the query, the update of the first document it yields, or the error
UpdateDocumentByField ==
    /\ UNCHANGED outsideFn
    /\ fn_pc = "called"
    /\ LET at == FirstMatch(fn_in.docs, fn_in.field_value)
       IN \E ok \in BOOLEAN :
            fn_out' = IF ok /\ at # 0
                      THEN [raised |-> FALSE,
                            docs |-> [fn_in.docs EXCEPT ![at] =
                                        UpdateFields(@, fn_in.update_fields.boxes_bought,
                                                     fn_in.update_fields.boxes_prov)]]
                      ELSE [raised |-> TRUE, docs |-> fn_in.docs]
    /\ fn_pc' = "returned"
    /\ UNCHANGED fn_in

SpecUpdateByField == UpdateInit /\ [][UpdateDocumentByField]_vars

\* C14: update_document_by_field changes at most one document; when it
\* returns, exactly one document whose name is the value holds the patch, its
\* other fields and every other document are as before; when no document
\* matches it raises and every document is as before.
C14_UpdatesOneDocument ==
    fn_pc = "returned" =>
        LET before == fn_in.docs
            after == fn_out.docs
            patch == fn_in.update_fields
            matching == {i \in DOMAIN before : before[i].name = fn_in.field_value}
        IN /\ DOMAIN after = DOMAIN before
           /\ Cardinality({i \in DOMAIN before : after[i] # before[i]}) <= 1
           /\ ~fn_out.raised =>
                \E i \in matching :
                    /\ \A f \in DOMAIN patch : after[i][f] = patch[f]
                    /\ DOMAIN after[i] = DOMAIN before[i] \cup DOMAIN patch
                    /\ \A f \in DOMAIN before[i] \ DOMAIN patch : after[i][f] = before[i][f]
                    /\ \A j \in DOMAIN before \ {i} : after[j] = before[j]
           /\ matching = {} => fn_out.raised
           /\ fn_out.raised => after = before

\* C14 (witness): of two documents with the name, one was patched and kept
\* its registration time, the other is as before.
C14_Witness ==
    /\ fn_pc = "returned"
    /\ ~fn_out.raised
    /\ Len(fn_in.docs) = 2
    /\ \A i \in DOMAIN fn_in.docs : fn_in.docs[i].name = fn_in.field_value
    /\ fn_in.docs[1].earliest_reg = Day
    /\ fn_out.docs[1] # fn_in.docs[1]
    /\ fn_out.docs[1].earliest_reg = Day
    /\ fn_out.docs[2] = fn_in.docs[2]

(***************************************************************************)
(* _generate_user_events, one call for one user                            *)
(***************************************************************************)
\* draws of one call: everything is produced; nothing is produced and the
\* call comes early; an unhappy call that comes late
CallDrawSamples ==
    {CallDrawSample,
     [happy_score |-> 99, rating_score |-> 99, rating_happy |-> 5,
      rating_unhappy |-> 3, comment_score |-> 99, length |-> 20,
      dialin_score |-> 99, type_score |-> 99, size_score |-> 99, jitter |-> -1000],
     [happy_score |-> 0, rating_score |-> 40, rating_happy |-> 4,
      rating_unhappy |-> 2, comment_score |-> 20, length |-> 5,
      dialin_score |-> 39, type_score |-> 70, size_score |-> 95, jitter |-> 1000]}

\* the draws _generate_ticket_events and _generate_call_events can make for
\* a user, the per-user draws sampled in combination, each call drawing from
\* CallDrawSamples
UserDrawsWide(user) ==
    UNION {
      {[troubley |-> e[1], os |-> Inert(1, 5), freq |-> e[2], happy |-> h[1],
        ratey |-> h[2], commenty |-> h[3], chatty |-> h[4], call |-> cs] :
          cs \in [1..CallCount(DaysSince(user.reg_date), e[2]) -> CallDrawSamples]} :
      e \in {<<0, 1>>, <<3, 6>>},
      h \in {<<0, 0, 0, 0>>, <<2, 2, 2, 1>>, <<1, 1, 1, 4>>}}

UserEventsInit ==
    /\ ReplaceIdle
    /\ PipeIdle
    /\ IngestIdle
    /\ fn_pc = "called"
    /\ \E days \in 0..MaxUserDays :
         LET user == [email |-> 1, company |-> 1, reg_date |-> Now - days * Day]
         IN \E ud \in UserDrawsWide(user) : fn_in = [user |-> user, ud |-> ud]
    /\ fn_out = NoResult

\* user_events = self._generate_user_events([user])
GenerateUserEventsCall ==
    /\ UNCHANGED outsideFn
    /\ fn_pc = "called"
    /\ fn_out' = GenerateUserEvents(<<fn_in.user>>, <<fn_in.ud>>)
    /\ fn_pc' = "returned"
    /\ UNCHANGED fn_in

SpecUserEvents == UserEventsInit /\ [][GenerateUserEventsCall]_vars

\* the positions of the call events of the list
CallsOf(events) == {j \in DOMAIN events : events[j].type = "call"}

\* C16: every rating, comment, dialin and load event carries the session
\* identifier of exactly one call event and has the call's timestamp (load:
\* one minute earlier).
C16_SubEventsCarrySession ==
    fn_pc = "returned" =>
        \A i \in DOMAIN fn_out :
            fn_out[i].type \in {"rating", "comment", "dialin", "load"} =>
                /\ "session_id" \in DOMAIN fn_out[i]
                /\ Cardinality({j \in CallsOf(fn_out) :
                                  fn_out[j].session_id = fn_out[i].session_id}) = 1
                /\ \E j \in CallsOf(fn_out) :
                      /\ fn_out[j].session_id = fn_out[i].session_id
                      /\ fn_out[i].timestamp =
                            (IF fn_out[i].type = "load" THEN fn_out[j].timestamp - 60
                             ELSE fn_out[j].timestamp)

\* C18: the timestamps of the events generated for a user (its tickets, its
\* calls and their sub-events) do not decrease along the list.
C18_UserTimestampsNonDecreasing ==
    fn_pc = "returned" =>
        \A i, j \in DOMAIN fn_out :
            (i < j /\ fn_out[i].type # "register" /\ fn_out[j].type # "register")
                => fn_out[i].timestamp <= fn_out[j].timestamp

\* C19: a rating, comment or dialin event comes in the group of events that
\* follows a call event of the same user (after the call and its load, with
\* only sub-events of that call in between), and the draws of that very call
\* produced it.
C19_NoOrphanSubEvents ==
    fn_pc = "returned" =>
        \A i \in DOMAIN fn_out :
            fn_out[i].type \in {"rating", "comment", "dialin"} =>
                LET before == {j \in CallsOf(fn_out) : j < i}
                    parent == CHOOSE j \in before : \A k \in before : k <= j
                    ud == fn_in.ud
                    c == ud.call[Cardinality(before)]
                IN /\ before # {}
                   /\ i - parent <= 4
                   /\ fn_out[parent + 1].type = "load"
                   /\ \A k \in (parent + 2)..(i - 1) :
                         /\ fn_out[k].type \in {"rating", "comment"}
                         /\ fn_out[k].type # fn_out[i].type
                   /\ fn_out[i].user = fn_out[parent].user
                   /\ fn_out[i].type = "rating" =>
                         /\ c.rating_score <= ud.ratey * 40
                         /\ fn_out[i].rating =
                               (IF c.happy_score >= ud.happy * 25
                                THEN c.rating_happy ELSE c.rating_unhappy)
                   /\ fn_out[i].type = "comment" =>
                         c.comment_score * 3 <= ud.commenty * 33 * ud.ratey
                   /\ fn_out[i].type = "dialin" =>
                         /\ c.dialin_score < 40
                         /\ fn_out[i].call_duration = fn_out[parent].call_duration

\* C36: the user has exactly one register event, at its registration time;
\* when its ticket count resolves to 0 the list holds no support_ticket
\* event, and when its call count resolves to 0 it holds no call, load,
\* rating, comment or dialin event.
C36_ZeroCountsEmitNothing ==
    fn_pc = "returned" =>
        LET days == (Now - fn_in.user.reg_date) \div Day
            tickets == days \div (2 * (4 - fn_in.ud.troubley))
            calls == (days * 10) \div (11 - fn_in.ud.freq)
        IN /\ Cardinality({i \in DOMAIN fn_out : fn_out[i].type = "register"}) = 1
           /\ \E i \in DOMAIN fn_out :
                 /\ fn_out[i].type = "register"
                 /\ fn_out[i].user = fn_in.user.email
                 /\ fn_out[i].timestamp = fn_in.user.reg_date
           /\ (tickets = 0 =>
                 \A i \in DOMAIN fn_out : fn_out[i].type # "support_ticket")
           /\ (calls = 0 =>
                 \A i \in DOMAIN fn_out :
                     fn_out[i].type \notin {"call", "load", "rating", "comment", "dialin"})

\* C36 (witness): for a user registered less than a day ago, whose ticket
\* count and call count are 0, the call returned the register event alone.
C36_Witness ==
    /\ fn_pc = "returned"
    /\ fn_in.user.reg_date = Now
    /\ Len(fn_out) = 1
    /\ fn_out[1].type = "register"

\* C37: every event of the user (register, support_ticket, call, load,
\* rating, comment, dialin) is stamped no earlier than the user's
\* registration and no later than the generation time.
C37_EventsWithinLifetime ==
    fn_pc = "returned" =>
        \A i \in DOMAIN fn_out :
            /\ fn_out[i].timestamp >= fn_in.user.reg_date
            /\ fn_out[i].timestamp <= Now

\* C37 (witness): the last of four calls, whose index times the jittered
\* spacing goes past the generation time, is stamped at the generation
\* time, its load one minute earlier.
C37_Witness ==
    /\ fn_pc = "returned"
    /\ Len(fn_in.ud.call) = 4
    /\ fn_in.ud.call[4].jitter = 1000
    /\ fn_in.user.reg_date
          + ((Now - fn_in.user.reg_date) \div 4 + fn_in.ud.call[4].jitter) * 4 > Now
    /\ \E i \in DOMAIN fn_out :
          /\ i + 1 \in DOMAIN fn_out
          /\ fn_out[i].type = "call"
          /\ fn_out[i].session_id[2] = 3
          /\ fn_out[i].timestamp = Now
          /\ fn_out[i + 1].type = "load"
          /\ fn_out[i + 1].timestamp = Now - 60

\* the positions of the events of the k-th call of the list: the call event and
\* what comes before the next call event
GroupOf(events, k) ==
    LET at == CHOOSE j \in CallsOf(events) :
                 Cardinality({i \in CallsOf(events) : i <= j}) = k
    IN {i \in DOMAIN events :
          i >= at /\ \A j \in CallsOf(events) : j > at => i < j}

\* C33 (as claimed): for every call, a dialin event is emitted exactly when
\* the call's dial-in draw is below 40, whatever the user's propensities
\* (chattiness 0 included), and it carries the duration of the call.
C33_DialinExactlyOnDraw ==
    fn_pc = "returned" =>
        \A k \in DOMAIN fn_in.ud.call :
            LET dialins == {i \in GroupOf(fn_out, k) : fn_out[i].type = "dialin"}
                call == CHOOSE j \in GroupOf(fn_out, k) : fn_out[j].type = "call"
            IN /\ (dialins # {}) <=> (fn_in.ud.call[k].dialin_score < 40)
               /\ \A i \in dialins :
                     fn_out[i].call_duration = fn_out[call].call_duration

\* C19 (witness): of two calls of a user the first produced a rating, a
\* comment and a dial-in, the second none of them.
C19_Witness ==
    /\ fn_pc = "returned"
    /\ \E i \in DOMAIN fn_out :
         /\ i + 5 \in DOMAIN fn_out
         /\ fn_out[i].type = "call"
         /\ fn_out[i + 1].type = "load"
         /\ fn_out[i + 2].type = "rating"
         /\ fn_out[i + 3].type = "comment"
         /\ fn_out[i + 4].type = "dialin"
         /\ fn_out[i + 5].type = "call"
         /\ (i + 7 \in DOMAIN fn_out => fn_out[i + 7].type = "call")

(***************************************************************************)
(* _build_company_events, one call                                         *)
(***************************************************************************)
\* a range for the initial provisioning that starts at 0
\* a range of last_prov that reaches past the quantity purchased
LastProvRangeDouble(purchased) == (purchased \div 2)..(2 * purchased)

\* last_prov = random.randint(purchased // 2, purchased)
LastProvRange(purchased) == (purchased \div 2)..purchased

\* draws of one later purchase: purchased = randint(5, 15) and last_prov at
\* the ends of their ranges, prov days = randint(2, 14) sampled
LaterDrawsWide ==
    UNION {{[purchased |-> q, prov_days |-> 2, last_prov |-> k] :
              k \in {j \in LastProvRange(q) :
                        \/ \A i \in LastProvRange(q) : j <= i
                        \/ \A i \in LastProvRange(q) : j >= i}} :
           q \in {5, 15}}

InitialProvRangeFromZero(initial_purchase) == 0..initial_purchase

\* initial_prov = random.randint(1, initial_purchase): its range
InitialProvRange(initial_purchase) == 1..initial_purchase

\* the draws _build_company_events can make for a company registered at reg:
\* initial_purchase = randint(1, 15) at both ends and in between, initial_prov
\* over its whole range, randint(1, 2) for the purchase count, the later
\* purchases sampled
CompanyDrawsWide(reg) ==
    UNION {
      {[initial_purchase |-> ip, prov_days |-> 2, initial_prov |-> k,
        mult |-> m, later |-> l] :
          k \in InitialProvRange(ip), l \in [1..(m * MonthsSince(reg) - 1) -> LaterDrawsWide]} :
      ip \in {1, 3, 15}, m \in 1..2}

CompanyEventsInit ==
    /\ ReplaceIdle
    /\ PipeIdle
    /\ IngestIdle
    /\ fn_pc = "called"
    /\ \E days \in 0..MaxCompanyDays :
         \E d \in CompanyDrawsWide(Now - days * Day) :
            fn_in = [company_name |-> 1, reg_date |-> Now - days * Day, d |-> d]
    /\ fn_out = NoResult

\* event_list = self._build_company_events(company_name, reg_date)
BuildCompanyEventsCall ==
    /\ UNCHANGED outsideFn
    /\ fn_pc = "called"
    /\ fn_out' = BuildCompanyEvents(fn_in.company_name, fn_in.reg_date, fn_in.d)
    /\ fn_pc' = "returned"
    /\ UNCHANGED fn_in

SpecCompanyEvents == CompanyEventsInit /\ [][BuildCompanyEventsCall]_vars

\* C17: the timestamps of the events _build_company_events returns do not
\* decrease along the list.
C17_CompanyTimestampsNonDecreasing ==
    fn_pc = "returned" =>
        \A i, j \in DOMAIN fn_out : i < j => fn_out[i].timestamp <= fn_out[j].timestamp

\* the number of provisioned events between the first event of the list and
\* the next purchased event (or the end of the list)
InitialProvisionedCount(events) ==
    LET later == {j \in DOMAIN events : j > 1 /\ events[j].type = "purchased"}
        stop == IF later = {} THEN Len(events) + 1
                ELSE CHOOSE j \in later : \A k \in later : j <= k
    IN Cardinality({j \in 2..(stop - 1) : events[j].type = "provisioned"})

\* C21: the list begins with the initial purchase, followed by K initial
\* provisioned events with 1 <= K <= initial_purchase (K = 1 when the initial
\* purchase is 1).
C21_InitialProvisionedInRange ==
    fn_pc = "returned" =>
        /\ fn_out[1].type = "purchased"
        /\ fn_out[1].purchased = fn_in.d.initial_purchase
        /\ 1 <= InitialProvisionedCount(fn_out)
        /\ InitialProvisionedCount(fn_out) <= fn_out[1].purchased
        /\ fn_out[1].purchased = 1 => InitialProvisionedCount(fn_out) = 1

\* C21 (witness): a company whose initial purchase is 1 got 1 initial
\* provisioned event, and a later purchase follows.
C21_Witness ==
    /\ fn_pc = "returned"
    /\ fn_out[1].purchased = 1
    /\ InitialProvisionedCount(fn_out) = 1
    /\ Len(fn_out) > 2
    /\ fn_out[3].type = "purchased"

\* the positions of the provisioned events of the list
ProvisionedAt(events) == {i \in DOMAIN events : events[i].type = "provisioned"}

\* C38: the box-name indices of the provisioned events of the company's list
\* are 1, 2, ..., P in the order of the list, P being the number of
\* provisioned events: the counter goes on across the purchases, repeats and
\* skips no index, and starts at 1.
C38_BoxIndicesRunOn ==
    fn_pc = "returned" =>
        \A i \in ProvisionedAt(fn_out) :
            fn_out[i].box_name
               = <<fn_in.company_name,
                   Cardinality({j \in ProvisionedAt(fn_out) : j <= i})>>

\* C38 (witness): the list holds four purchases; the first unit provisioned
\* after the last purchase takes the index that follows those of all the
\* units before it.
C38_Witness ==
    /\ fn_pc = "returned"
    /\ Cardinality({i \in DOMAIN fn_out : fn_out[i].type = "purchased"}) = 4
    /\ \E i \in ProvisionedAt(fn_out) :
          /\ fn_out[i - 1].type = "purchased"
          /\ \A j \in (i + 1)..Len(fn_out) : fn_out[j].type = "provisioned"
          /\ fn_out[i].box_name[2] > 15
          /\ fn_out[i].box_name[2] = Cardinality({j \in ProvisionedAt(fn_out) : j < i}) + 1

\* the sum of the field of the events of a kind among the first n of the list
RECURSIVE PrefixTotal(_, _, _)
PrefixTotal(events, kind, n) ==
    IF n = 0 THEN 0
    ELSE PrefixTotal(events, kind, n - 1)
         + (IF events[n].type # kind THEN 0
            ELSE IF kind = "purchased" THEN events[n].purchased
            ELSE events[n].provisioned)

\* the number of provisioned events that follow the purchase at position i,
\* up to the next purchase
ProvisionedAfter(events, i) ==
    Cardinality({j \in ProvisionedAt(events) :
                   j > i /\ \A k \in (i + 1)..j : events[k].type = "provisioned"})

\* C39: after every event of the company's list the quantity provisioned so
\* far is at most the quantity purchased so far, and so are the totals; the
\* first purchase, of quantity q, is followed by 1 to q unit provisioned
\* events, every later purchase by floor(q/2) to q of them.
C39_ProvisionedWithinPurchased ==
    fn_pc = "returned" =>
        /\ \A n \in DOMAIN fn_out :
              PrefixTotal(fn_out, "provisioned", n) <= PrefixTotal(fn_out, "purchased", n)
        /\ \A i \in DOMAIN fn_out :
              /\ fn_out[i].type = "provisioned" => fn_out[i].provisioned = 1
              /\ fn_out[i].type = "purchased" =>
                    /\ ProvisionedAfter(fn_out, i) <= fn_out[i].purchased
                    /\ ProvisionedAfter(fn_out, i)
                          >= (IF i = 1 THEN 1 ELSE fn_out[i].purchased \div 2)

\* C39 (witness): every unit bought was provisioned: after the first purchase
\* and after a later purchase of 15 units; the totals are equal.
C39_Witness ==
    /\ fn_pc = "returned"
    /\ ProvisionedAfter(fn_out, 1) = fn_out[1].purchased
    /\ \E i \in DOMAIN fn_out :
          /\ i > 1
          /\ fn_out[i].type = "purchased"
          /\ fn_out[i].purchased = 15
          /\ ProvisionedAfter(fn_out, i) = 15
    /\ PrefixTotal(fn_out, "provisioned", Len(fn_out))
          = PrefixTotal(fn_out, "purchased", Len(fn_out))

(***************************************************************************)
(* _create_company_docs, one call                                          *)
(***************************************************************************)
CompanyDocsInit ==
    /\ ReplaceIdle
    /\ PipeIdle
    /\ IngestIdle
    /\ fn_pc = "called"
    /\ \E n \in 0..MaxUsers :
         \E c \in [1..n -> 1..2] :
            \E r \in [1..n -> {Now, Now - 60, Now - 5 * Day}] :
               fn_in = [users |-> [i \in 1..n |->
                           [email |-> i, company |-> c[i], reg_date |-> r[i]]]]
    /\ fn_out = NoResult

\* companies = self._create_company_docs(users)
CreateCompanyDocsCall ==
    /\ UNCHANGED outsideFn
    /\ fn_pc = "called"
    /\ fn_out' = CreateCompanyDocs(fn_in.users)
    /\ fn_pc' = "returned"
    /\ UNCHANGED fn_in

SpecCompanyDocs == CompanyDocsInit /\ [][CreateCompanyDocsCall]_vars

\* C20: _create_company_docs returns exactly one document per distinct
\* company name of the users; its earliest_reg is the registration time of one
\* of the company's users and is <= that of every user of the company.
C20_OneCompanyPerName ==
    fn_pc = "returned" =>
        LET us == fn_in.users
            names == {us[i].company : i \in DOMAIN us}
        IN /\ {fn_out[k].name : k \in DOMAIN fn_out} = names
           /\ Len(fn_out) = Cardinality(names)
           /\ \A k \in DOMAIN fn_out :
                /\ \E i \in DOMAIN us :
                      us[i].company = fn_out[k].name /\ us[i].reg_date = fn_out[k].earliest_reg
                /\ \A i \in DOMAIN us :
                      us[i].company = fn_out[k].name => fn_out[k].earliest_reg <= us[i].reg_date

\* C20 (witness): three users in two companies give exactly 2 companies, the
\* first taking the registration time of its second, earlier user.
C20_Witness ==
    /\ fn_pc = "returned"
    /\ Len(fn_in.users) = 3
    /\ fn_in.users[1].company = fn_in.users[2].company
    /\ fn_in.users[3].company # fn_in.users[1].company
    /\ fn_in.users[2].reg_date < fn_in.users[1].reg_date
    /\ Len(fn_out) = 2
    /\ fn_out[1].earliest_reg = fn_in.users[2].reg_date

(***************************************************************************)
(* the number of callers of one call                                       *)
(***************************************************************************)
\* the values random.randint(0, 99) can return
Scores == 0..99

CallSizeInit ==
    /\ ReplaceIdle
    /\ PipeIdle
    /\ IngestIdle
    /\ fn_pc = "called"
    /\ \E score \in Scores : fn_in = [call_size_score |-> score]
    /\ fn_out = NoResult

\* the choice of call_users for the score drawn
ChooseCallUsers ==
    /\ UNCHANGED outsideFn
    /\ fn_pc = "called"
    /\ fn_out' = [call_users |-> CallUsers(fn_in.call_size_score)]
    /\ fn_pc' = "returned"
    /\ UNCHANGED fn_in

SpecCallSize == CallSizeInit /\ [][ChooseCallUsers]_vars

\* C40 (as claimed): the number of callers is 2, 3 or 4 in the first three
\* bands and from 5 to 14 in the last, so always from 2 to 14, and every
\* count from 5 to 14 is the outcome of some score of the last band.
C40_CallSizeBands ==
    fn_pc = "returned" =>
        /\ fn_out.call_users >= 2
        /\ fn_out.call_users <= 14
        /\ (fn_in.call_size_score >= 95 => fn_out.call_users \in 5..14)
        /\ \A n \in 5..14 :
              \E score \in Scores : score >= 95 /\ CallUsers(score) = n

(***************************************************************************)
(* _create_project_docs on one company                                     *)
(***************************************************************************)
\* the draws _create_project_docs can make for one company, every project
\* with its own random_offset (the ends and the middle of its range)
ProjectDrawsWide(company) ==
    IF ProjectPeriodEmpty(company)
    THEN {[num_projects |-> n, offsets |-> <<>>, future |-> 0] :
            n \in demo_min_projects_per_company..demo_max_projects_per_company}
    ELSE UNION {
           {[num_projects |-> n, offsets |-> o, future |-> k] :
              o \in [1..n -> {-RandomnessRange(company, n), 0, RandomnessRange(company, n)}],
              k \in {0, ((Now + 30 * Day) - (Now + Day)) \div Day - 1}} :
           n \in demo_min_projects_per_company..demo_max_projects_per_company}

ProjectsInit ==
    /\ ReplaceIdle
    /\ PipeIdle
    /\ IngestIdle
    /\ fn_pc = "called"
    /\ \E days \in 0..MaxProjectAge :
         \E delay \in {0, demo_max_reg_delay_minutes} :
            LET company == [name |-> 1, earliest_reg |-> Now - days * Day - delay * 60,
                            boxes_bought |-> 0, boxes_prov |-> 0]
            IN \E pd \in ProjectDrawsWide(company) :
                  fn_in = [companies |-> <<company>>, pds |-> <<pd>>]
    /\ fn_out = NoResult

\* projects = self._create_project_docs(companies)
CreateProjectDocsCall ==
    /\ UNCHANGED outsideFn
    /\ fn_pc = "called"
    /\ fn_out' = CreateProjectDocs(fn_in.companies, fn_in.pds)
    /\ fn_pc' = "returned"
    /\ UNCHANGED fn_in

SpecProjects == ProjectsInit /\ [][CreateProjectDocsCall]_vars

\* C23: a company that contributes projects has a project dated strictly
\* after the generation time; when no spread date is, the last project is
\* dated at least one day after the generation time and before 30 days
\* after it, and the other projects keep their spread dates.
C23_OneFutureProject ==
    fn_pc = "returned" /\ fn_out # <<>> =>
        LET spread == SpreadDates(fn_in.companies[1], fn_in.pds[1])
            n == Len(fn_out)
        IN /\ \E i \in 1..n : fn_out[i].date > Now
           /\ n = Len(spread)
           /\ IF \A i \in 1..n : spread[i] <= Now
              THEN /\ fn_out[n].date >= Now + Day
                   /\ fn_out[n].date < Now + 30 * Day
                   /\ \A i \in 1..(n - 1) : fn_out[i].date = spread[i]
              ELSE \A i \in 1..n : fn_out[i].date = spread[i]

\* C23 (witness): three projects were returned, none of the spread dates was
\* in the future, and the last project is now dated after the generation time.
C23_Witness ==
    /\ fn_pc = "returned"
    /\ Len(fn_out) = 3
    /\ \A i \in 1..3 : SpreadDates(fn_in.companies[1], fn_in.pds[1])[i] <= Now
    /\ fn_out[3].date > Now
    /\ fn_out[1].date <= Now

\* C34: the company contributes no project exactly when its window is empty
\* (earliest_reg + 90 days >= now + 30 days), and the call returns; any other
\* company contributes the drawn number of projects, between the minimum and
\* the maximum, each under its name and dated from earliest_reg + 90 days to
\* now + 30 days.
C34_SkipOnlyEmptyWindow ==
    fn_pc = "returned" =>
        LET c == fn_in.companies[1]
            from == c.earliest_reg + 90 * Day
            to == Now + 30 * Day
        IN /\ (fn_out = <<>>) <=> (from >= to)
           /\ (from < to =>
                 /\ Len(fn_out) = fn_in.pds[1].num_projects
                 /\ Len(fn_out) >= demo_min_projects_per_company
                 /\ Len(fn_out) <= demo_max_projects_per_company
                 /\ \A i \in DOMAIN fn_out :
                       /\ fn_out[i].company = c.name
                       /\ fn_out[i].date >= from
                       /\ fn_out[i].date <= to)

\* C34 (witness): a company whose window is two hours long contributed
\* three projects, all dated within it.
C34_Witness ==
    /\ fn_pc = "returned"
    /\ fn_in.companies[1].earliest_reg + 90 * Day = Now + 30 * Day - 7200
    /\ Len(fn_out) = 3
    /\ \A i \in 1..3 : fn_out[i].date >= Now + 30 * Day - 7200
                         /\ fn_out[i].date <= Now + 30 * Day

(***************************************************************************)
(* _generate_company_updates on a list of events                           *)
(***************************************************************************)
\* the events a list handed to _generate_company_updates is made of: purchases
\* and provisions of two companies, and an event of another type
SomeEvents ==
    UNION {{[type |-> "purchased", company |-> c, purchased |-> 1],
            [type |-> "purchased", company |-> c, purchased |-> 3],
            [type |-> "provisioned", company |-> c, provisioned |-> 1],
            [type |-> "provisioned", company |-> c, provisioned |-> 2],
            [type |-> "returned", company |-> c]} : c \in 1..2}

CompanyUpdatesInit ==
    /\ ReplaceIdle
    /\ PipeIdle
    /\ IngestIdle
    /\ fn_pc = "called"
    /\ \E n \in 0..MaxEvents :
         \E events \in [1..n -> SomeEvents] :
            fn_in = [company_events |-> events]
    /\ fn_out = NoResult

\* company_updates = self._generate_company_updates(company_events)
GenerateCompanyUpdatesCall ==
    /\ UNCHANGED outsideFn
    /\ fn_pc = "called"
    /\ \E order \in Orders(AllCompanies(fn_in.company_events)) :
         fn_out' = GenerateCompanyUpdates(fn_in.company_events, order)
    /\ fn_pc' = "returned"
    /\ UNCHANGED fn_in

SpecCompanyUpdates == CompanyUpdatesInit /\ [][GenerateCompanyUpdatesCall]_vars

RECURSIVE QuantitySum(_, _, _)
\* the sum of the quantities of the events of a company and a kind
QuantitySum(events, company, kind) ==
    IF events = <<>> THEN 0
    ELSE (IF Head(events).company = company /\ Head(events).type = kind
          THEN (IF kind = "purchased" THEN Head(events).purchased
                ELSE Head(events).provisioned)
          ELSE 0)
         + QuantitySum(Tail(events), company, kind)

\* the companies with a purchased or a provisioned event in the list
CompaniesWithBoxEvents(events) ==
    {c \in 1..2 : \E i \in DOMAIN events :
                     /\ events[i].company = c
                     /\ events[i].type \in {"purchased", "provisioned"}}

\* C24: the updates hold exactly one entry for each company with a purchased
\* or provisioned event and none for any other company; the totals of an
\* entry are the sums of the quantities of the company's events of each kind,
\* 0 for a kind without an event.
C24_OneUpdatePerCompany ==
    fn_pc = "returned" =>
        LET events == fn_in.company_events
        IN /\ {fn_out[k][1] : k \in DOMAIN fn_out} = CompaniesWithBoxEvents(events)
           /\ \A j, k \in DOMAIN fn_out : fn_out[j][1] = fn_out[k][1] => j = k
           /\ \A k \in DOMAIN fn_out :
                 /\ fn_out[k][2].purchased
                       = <<QuantitySum(events, fn_out[k][1], "purchased")>>
                 /\ fn_out[k][2].provisioned
                       = <<QuantitySum(events, fn_out[k][1], "provisioned")>>
                 /\ \A kind \in {"purchased", "provisioned"} :
                       (\A i \in DOMAIN events :
                           ~(events[i].company = fn_out[k][1] /\ events[i].type = kind))
                       => fn_out[k][2][kind] = <<0>>

\* C24 (witness): a list in which company 1 has only provisioned events,
\* two of them, and company 2 only an event of another type gave one entry,
\* for company 1, with purchased 0 and provisioned the sum.
C24_Witness ==
    /\ fn_pc = "returned"
    /\ Len(fn_in.company_events) = 3
    /\ \E i \in 1..3 : fn_in.company_events[i] = [type |-> "returned", company |-> 2]
    /\ Len(fn_out) = 1
    /\ fn_out[1][1] = 1
    /\ fn_out[1][2].purchased = <<0>>
    /\ fn_out[1][2].provisioned = <<3>>

(***************************************************************************)
(* create_demo_data twice on the same seed users with the same draws       *)
(***************************************************************************)
\* a seed table whose first user registered 61 days ago, the others today
SeedUsersAged(n) ==
    [i \in 1..n |-> [email |-> i, company |-> (i + 1) \div 2,
                     offset |-> IF i = 1 THEN 61 ELSE 0]]

\* the draws of a user's tickets and calls with freq at its low end
UserDrawsLowFreq(user, troubley) ==
    [troubley |-> troubley, os |-> Inert(1, 5), freq |-> 1, happy |-> 1, ratey |-> 1,
     commenty |-> 1, chatty |-> 1,
     call |-> [k \in 1..CallCount(DaysSince(user.reg_date), 1) |-> CallDrawSample]]

\* the lists create_demo_data builds (lines 52-68) from the seed rows and the
\* draws of in, the set of companies being iterated in the order 'order'
RunLists(in, order) ==
    LET us == CreateUserDocs(GetUsers(in.source_table, in.user_limit), in.delay)
        cs == CreateCompanyDocs(us)
        ce == GenerateCompanyEvents(cs, in.cds)
        cu == GenerateCompanyUpdates(ce, order)
    IN [users |-> us, companies |-> cs,
        projects |-> CreateProjectDocs(cs, in.pds),
        trending |-> CreateTrendingDocs(cs),
        company_events |-> ce,
        renewals |-> CreateRenewalDocs(cu, [k \in DOMAIN cu |-> RenewalDrawSample]),
        user_events |-> GenerateUserEvents(us, in.uds)]

\* the "stats" of the result of a run that succeeds
RunStats(in, order) ==
    LET l == RunLists(in, order)
    IN [users |-> Len(l.users), companies |-> Len(l.companies),
        projects |-> Len(l.projects), trending_entries |-> Len(l.trending),
        renewals |-> Len(l.renewals), company_events |-> Len(l.company_events),
        user_events |-> Len(l.user_events)]

\* the orders in which a run with the inputs in can iterate all_companies
RunOrders(in) ==
    Orders({in.source_table[i].company :
              i \in DOMAIN GetUsers(in.source_table, in.user_limit)})

TwoRunsInit ==
    /\ ReplaceIdle
    /\ PipeIdle
    /\ IngestIdle
    /\ fn_pc = "called"
    /\ \E limit \in {0, MaxSeedUsers - 1} :
         LET rows == GetUsers(SeedUsersAged(MaxSeedUsers), limit)
         IN \E delay \in RegDelays(rows) :
              LET us == CreateUserDocs(rows, delay)
                  cs == CreateCompanyDocs(us)
              IN \E pds \in [DOMAIN cs -> UNION {ProjectDraws(cs[k]) : k \in DOMAIN cs}] :
                 \E cds \in [DOMAIN cs -> UNION {CompanyDraws(cs[k].earliest_reg) :
                                                   k \in DOMAIN cs}] :
                 \E troubley \in {0, 3} :
                    /\ \A k \in DOMAIN cs :
                          /\ pds[k] \in ProjectDraws(cs[k])
                          /\ cds[k] \in CompanyDraws(cs[k].earliest_reg)
                    /\ fn_in = [source_table |-> SeedUsersAged(MaxSeedUsers),
                                user_limit |-> limit, delay |-> delay,
                                pds |-> pds, cds |-> cds,
                                uds |-> [i \in DOMAIN us |->
                                            UserDrawsLowFreq(us[i], troubley)]]
    /\ fn_out = <<>>

\* the first run: create_demo_data returns success with its stats
FirstRun ==
    /\ UNCHANGED outsideFn
    /\ fn_pc = "called"
    /\ \E order \in RunOrders(fn_in) :
         fn_out' = <<[order |-> order, stats |-> RunStats(fn_in, order)]>>
    /\ fn_pc' = "once"
    /\ UNCHANGED fn_in

\* the second run, on the same seed rows with the same draws
SecondRun ==
    /\ UNCHANGED outsideFn
    /\ fn_pc = "once"
    /\ \E order \in RunOrders(fn_in) :
         fn_out' = Append(fn_out, [order |-> order, stats |-> RunStats(fn_in, order)])
    /\ fn_pc' = "returned"
    /\ UNCHANGED fn_in

TwoRunsNext ==
    \/ FirstRun
    \/ SecondRun

SpecTwoRuns == TwoRunsInit /\ [][TwoRunsNext]_vars

StageOrder ==
    <<"FetchUsers", "ReplaceUsers", "ReplaceCompanies", "ReplaceProjects",
      "ReplaceTrending", "SynthesizeCompanyEvents", "TruncateAnalyticsTables",
      "IngestCompanyEvents", "AggregateCompanyEvents", "ReplaceRenewals",
      "PatchCompanyTotals", "SynthesizeUserEvents", "IngestUserEvents">>

StageIndex(stage) == CHOOSE i \in DOMAIN StageOrder : StageOrder[i] = stage

Returned == pc = "done" /\ "success" \in DOMAIN result

\* the company document a patch of company name reaches holds the sums
TotalsStored(name) ==
    LET at == FirstMatch(fs["companies"], name)
    IN /\ at # 0
       /\ fs["companies"][at].boxes_bought = QuantitySum(company_events, name, "purchased")
       /\ fs["companies"][at].boxes_prov = QuantitySum(company_events, name, "provisioned")

\* C1: the operations of a run are issued in the order of the stages: no
\* operation of a stage (the deletion of the users collection included) comes
\* before an operation of a stage that precedes it in the list.
C1_StagesInOrder ==
    \A i, j \in DOMAIN trace :
        i < j => StageIndex(trace[i].stage) <= StageIndex(trace[j].stage)

C13_InsertAfterTruncateAndSettle ==
    \A i \in DOMAIN trace :
        trace[i].op = "insert" =>
            \E j \in 1..(i - 1) :
                /\ trace[j].op = "sleep"
                /\ \A t \in {"company_events", "user_events"} :
                      \E k \in 1..(j - 1) :
                          trace[k].op = "truncate" /\ trace[k].target = t

\* C13 (witness): both tables were inserted into, after a truncation that
\* failed and the settle delay.
C13_Witness ==
    /\ \E i \in DOMAIN trace : trace[i].op = "insert" /\ trace[i].target = "company_events"
    /\ \E i \in DOMAIN trace : trace[i].op = "insert" /\ trace[i].target = "user_events"
    /\ \E k \in DOMAIN trace : trace[k].op = "truncate" /\ ~trace[k].ok
    /\ \E j \in DOMAIN trace : trace[j].op = "sleep"

\* C15: a failed patch of a company's totals does not end the run; the
\* patches are issued in the order of company_updates, one per entry, so
\* every later company is still patched; once the run is past the loop every
\* entry has had its patch.
C15_PatchFailureDoesNotStop ==
    LET patches == {i \in DOMAIN trace : trace[i].op = "patch"}
        nth(i) == Cardinality({j \in patches : j <= i})
    IN /\ \A i \in patches :
            /\ nth(i) <= Len(company_updates)
            /\ trace[i].company = company_updates[nth(i)][1]
            /\ (~trace[i].ok /\ i = Len(trace)) =>
                  pc = (IF nth(i) < Len(company_updates) THEN "patch" ELSE "synth_user")
       /\ (\E i \in DOMAIN trace : trace[i].stage \in {"SynthesizeUserEvents", "IngestUserEvents"})
             => Cardinality(patches) = Len(company_updates)
       /\ (patches # {} /\ pc = "done") =>
             \E i \in DOMAIN trace : trace[i].stage = "IngestUserEvents"

\* C15 (witness): the patch of the first company failed, the second company
\* was patched, the user events were synthesized and ingested and the run
\* returned success.
C15_Witness ==
    /\ Returned /\ result.success
    /\ \E i, j \in DOMAIN trace :
         /\ i < j
         /\ trace[i].op = "patch" /\ ~trace[i].ok
         /\ trace[j].op = "patch" /\ trace[j].ok
         /\ TotalsStored(trace[j].company)
    /\ \E i \in DOMAIN trace : trace[i].op = "insert" /\ trace[i].target = "user_events" /\ trace[i].ok

C3_EmptySeedLeavesStoresAlone ==
    (Returned /\ ~result.success /\ result.error = "no_users") =>
        fs = fs0 /\ bq = bq0

\* C4: the result of a failed run carries the counts of the stages completed
\* before the failure.
C4_FailureCarriesCounts ==
    (Returned /\ ~result.success) =>
        /\ "stats" \in DOMAIN result
        /\ result.stats.users = Len(users)
        /\ result.stats.companies = Len(companies)
        /\ result.stats.projects = Len(projects)
        /\ result.stats.trending_entries = Len(trending)
        /\ result.stats.renewals = Len(renewals)
        /\ result.stats.company_events = Len(company_events)
        /\ result.stats.user_events = Len(user_events)

\* C5: after a run that returned success, for every generated company whose
\* patch did not fail, the company document the patch updated holds
\* boxes_bought = the sum of its purchased quantities and boxes_prov = the sum
\* of its provisioned quantities.
C5_PatchedTotalsAreSums ==
    (Returned /\ result.success) =>
        \A k \in DOMAIN companies :
            (\E i \in DOMAIN trace :
                /\ trace[i].op = "patch"
                /\ trace[i].company = companies[k].name
                /\ trace[i].ok)
            => TotalsStored(companies[k].name)

\* C5 (witness): a run returned success with the totals of one company patched
\* (more than one purchase, so that the sum is not the count) and the patch of
\* another company failed.
C5_Witness ==
    /\ Returned /\ result.success
    /\ \E i, j \in DOMAIN trace :
         /\ trace[i].op = "patch" /\ trace[i].ok
         /\ TotalsStored(trace[i].company)
         /\ QuantitySum(company_events, trace[i].company, "purchased") > 3
         /\ trace[j].op = "patch" /\ ~trace[j].ok

\* C5 (as stated): after a run that returned success every generated company's
\* stored document holds the sums.
C5_AllTotalsAreSums ==
    (Returned /\ result.success) =>
        \A k \in DOMAIN companies : TotalsStored(companies[k].name)

\* the delete of the renewals collection succeeded: the renewals were made
RenewalsMade ==
    \E i \in DOMAIN trace :
        trace[i].op = "delete" /\ trace[i].target = "renewals" /\ trace[i].ok

\* C35: there is one renewal per entry of company_updates, for the entry's
\* company, with amount 2499 times the company's total purchased quantity
\* and health from 10 to 100; after a run without a failure every renewal is
\* stored and its amount is 2499 times the boxes_bought stored on the
\* document of its company.
C35_RenewalPerUpdate ==
    /\ RenewalsMade =>
          /\ Len(renewals) = Len(company_updates)
          /\ \A k \in DOMAIN renewals :
                /\ renewals[k].company = company_updates[k][1]
                /\ renewals[k].amount
                      = 2499 * QuantitySum(company_events, renewals[k].company, "purchased")
                /\ renewals[k].health >= 10
                /\ renewals[k].health <= 100
    /\ (Returned /\ result.success /\ \A i \in DOMAIN trace : trace[i].ok) =>
          \A k \in DOMAIN renewals :
              LET at == FirstMatch(fs["companies"], renewals[k].company)
              IN /\ \E j \in DOMAIN fs["renewals"] : fs["renewals"][j] = renewals[k]
                 /\ at # 0
                 /\ renewals[k].amount = 2499 * fs["companies"][at].boxes_bought

\* C35 (witness): a run without a failure returned with two renewals, one
\* per company, the second of health 100, each priced on the boxes_bought
\* stored on its company's document.
C35_Witness ==
    /\ Returned
    /\ result.success
    /\ \A i \in DOMAIN trace : trace[i].ok
    /\ Len(renewals) = 2
    /\ renewals[1].company # renewals[2].company
    /\ renewals[2].health = 100
    /\ \A k \in 1..2 :
          /\ renewals[k].amount > 0
          /\ renewals[k].amount
                = 2499 * fs["companies"][FirstMatch(fs["companies"],
                                                    renewals[k].company)].boxes_bought

\* C32 (as claimed): after a run that returned success the company_events
\* table holds exactly the company events of the run and the user_events
\* table exactly its user events, whatever the tables held before and
\* whatever failed during the run.
C32_TablesHoldThisRun ==
    (Returned /\ result.success) =>
        /\ bq["company_events"] = company_events
        /\ bq["user_events"] = user_events

(***************************************************************************)
(* Claims about delete_all_documents and batch_write (SpecReplace).        *)
(***************************************************************************)

\* C6 (as claimed): when delete_all_documents returns without error, every
\* document that was in the collection when the call began has been deleted.
C6_EveryDocumentDeleted == dpc = "returned" => coll \cap coll0 = {}

\* C7: the batches submitted and not yet resolved never number more than
\* 2 x max_workers; the loop never goes on to submit with a full list, and
\* while it is blocked it is blocked on the oldest batch it has not awaited,
\* every older batch being resolved.
C7_InFlightBounded ==
    /\ Cardinality(Unresolved) <= 2 * max_workers
    /\ (dpc = "loop" => Len(batch_futures) < 2 * max_workers)
    /\ (dpc = "wait_oldest" =>
          /\ waiting \in DOMAIN futures
          /\ \A f \in Range(batch_futures) : waiting < f
          /\ \A f \in 1..(waiting - 1) : Resolved(f))

\* C7 witness: the cap is reached and the submitter is blocked on the oldest
\* batch, which is still unresolved.
C7_Witness ==
    /\ dpc = "wait_oldest"
    /\ ~Resolved(waiting)
    /\ Cardinality(Unresolved) = 2 * max_workers

\* C8 (as claimed): the error delete_all_documents fails with carries the
\* number of documents whose deletion had been committed.
C8_ErrorPreservesDeletedCount ==
    dpc = "raised" =>
        /\ "deleted_count" \in DOMAIN del_result.details
        /\ del_result.details["deleted_count"] = Cardinality(coll0 \ coll)

\* C9: replacing an empty collection with N new records, when both calls
\* return without error, leaves exactly N records in the collection.
C9_ReplaceEmptyLeavesN ==
    (dpc = "write_done" /\ coll0 = {}) => Cardinality(coll) = documents

\* C9 witness: an empty collection was replaced by more records than one
\* store batch holds.
C9_Witness ==
    /\ dpc = "write_done"
    /\ coll0 = {}
    /\ documents > StoreBatchLimit
    /\ Cardinality(coll) = documents

\* C10 (as claimed): batch_write commits partitions no larger than the
\* store's batch limit, so a larger record set takes more than one commit.
C10_WritePartitioned ==
    dpc \in {"write_done", "write_failed"} =>
        /\ \A i \in DOMAIN commits : commits[i] <= StoreBatchLimit
        /\ (documents > StoreBatchLimit => Len(commits) > 1)

\* delete_all_documents has returned or raised
DeleteEnded == dpc \in {"returned", "raised", "write_done", "write_failed"}

\* C25: when the commit of a submitted batch has failed, delete_all_documents
\* does not return a count; once it has ended it has raised
\* ExternalServiceError, whether the failed batch was awaited at the in-flight
\* cap or in the final drain.
C25_FailedBatchRaises ==
    (\E f \in DOMAIN futures : futures[f].state = "failed") =>
        /\ del_result.kind # "count"
        /\ dpc \notin {"exit_ok", "returned", "write_done", "write_failed"}
        /\ (dpc = "raised" => del_result.kind = "ExternalServiceError")

\* C25 (witness): the call has raised ExternalServiceError after the commit
\* of a batch other than the first failed while earlier batches had
\* succeeded; the failed batch was left to the final drain.
C25_Witness ==
    /\ dpc = "raised"
    /\ del_result.kind = "ExternalServiceError"
    /\ \E f \in DOMAIN futures :
          /\ f > 1
          /\ futures[f].state = "failed"
          /\ f \in Range(batch_futures)
          /\ \A g \in 1..(f - 1) : futures[g].state = "done"

\* C26: delete_all_documents has neither returned nor raised while a
\* submitted batch is unresolved; no submitted batch is left unrun.
C26_EndsAfterEveryBatch ==
    (DeleteEnded \/ del_result # NoResult) => Unresolved = {}

\* C26 (witness): the call has raised after the first batch failed at the
\* in-flight cap; a batch submitted before the failure was seen, which the
\* submitter never awaited, has committed and counted its deletions.
C26_Witness ==
    /\ dpc = "raised"
    /\ as_completed = {}
    /\ Len(futures) >= 2
    /\ futures[1].state = "failed"
    /\ \E g \in Range(batch_futures) : futures[g].state = "done"

\* C27: under every interleaving of the pool threads, the count a successful
\* delete_all_documents returns is the number of references streamed; every
\* streamed reference is in exactly one batch, every batch committed, and
\* the references are gone from the collection.
C27_CountIsStreamed ==
    dpc = "returned" =>
        LET streamed == Range(QueryStream(coll0))
        IN /\ del_result = [kind |-> "count", value |-> Cardinality(streamed)]
           /\ \A r \in streamed :
                 Cardinality({f \in DOMAIN futures : r \in futures[f].refs}) = 1
           /\ \A f \in DOMAIN futures :
                 futures[f].state = "done" /\ futures[f].refs \subseteq streamed
           /\ coll \cap streamed = {}

\* C27 (witness): a call that streamed five references in three batches, the
\* last one partial, returned the count 5.
C27_Witness ==
    /\ dpc = "returned"
    /\ Len(futures) = 3
    /\ Cardinality(futures[3].refs) = 1
    /\ del_result = [kind |-> "count", value |-> 5]

====
